---- MODULE Spec2Model ----
(***************************************************************************)
(* Hypothesis-test auxiliary calculator: the nine procedures of            *)
(* hypothesis_calc.py and the ten procedures of                            *)
(* calculadora_testes_hipoteses.py, each modelled as one atomic call.      *)
(* Spec is a procedure called directly; SpecMenu is the interactive loop   *)
(* of each program, which calls the same procedures.                       *)
(*                                                                         *)
(* Numbers.  A Python/NumPy float is modelled by its exact real value:     *)
(*   [k |-> "Q",   n, d]   the rational n/d (d > 0, lowest terms)          *)
(*   [k |-> "R",   n, d]   the irrational sign(n) * sqrt(|n|/d)            *)
(*   [k |-> "inf", n, d]   +infinity (n = 1) or -infinity (n = -1)         *)
(*   [k |-> "nan", n, d]   not-a-number                                    *)
(*   [k |-> "None",n, d]   Python's None (argument not supplied)           *)
(* Binary rounding error of IEEE doubles is not modelled.  A quantile of   *)
(* scipy.stats is kept as an uninterpreted term [k |-> "ppf", ...] that    *)
(* records the distribution, the probability and the degrees of freedom    *)
(* it was asked for, whether it was negated and whether it was rounded.    *)
(***************************************************************************)
EXTENDS Integers, Sequences, FiniteSets, TLC

VARIABLES call, outcome, pc, prog, option, printed, last, repetir

vars == <<call, outcome, pc, prog, option, printed, last, repetir>>

----------------------------------------------------------------------------
(* Exact arithmetic on the number records                                  *)

Abs(i) == IF i < 0 THEN -i ELSE i

Sgn(i) == IF i < 0 THEN -1 ELSE IF i = 0 THEN 0 ELSE 1

RECURSIVE Gcd(_, _)
Gcd(a, b) == IF b = 0 THEN a ELSE Gcd(b, a % b)

(* floor of the square root of a natural number *)
RECURSIVE IsqrtBetween(_, _, _)
IsqrtBetween(i, lo, hi) ==
    IF hi - lo <= 1 THEN lo
    ELSE LET mid == (lo + hi) \div 2
         IN  IF mid * mid <= i THEN IsqrtBetween(i, mid, hi)
             ELSE IsqrtBetween(i, lo, mid)

(* TLC integers are 32-bit: the root of any representable i is below 46341 *)
Isqrt(i) == IsqrtBetween(i, 0, IF i < 46340 THEN i + 1 ELSE 46341)

IsSquare(i) == Isqrt(i) * Isqrt(i) = i

None == [k |-> "None", n |-> 0, d |-> 1]

NaN == [k |-> "nan", n |-> 0, d |-> 1]

Inf(sign) == [k |-> "inf", n |-> sign, d |-> 1]

(* the rational a/b in lowest terms with a positive denominator; every    *)
(* caller tests the divisor first, as Python raises on b = 0              *)
Q(a, b) ==
    IF b = 0 THEN NaN
    ELSE LET g == Gcd(Abs(a), Abs(b))
             s == IF b < 0 THEN -1 ELSE 1
         IN  [k |-> "Q", n |-> s * (a \div g), d |-> Abs(b) \div g]

Num(i) == [k |-> "Q", n |-> i, d |-> 1]

IsNone(v) == v.k = "None"

IsQ(v) == v.k = "Q"

IsFinite(v) == v.k \in {"Q", "R"}

IsZero(v) == v.k = "Q" /\ v.n = 0

QAdd(a, b) == Q(a.n * b.d + b.n * a.d, a.d * b.d)

QNeg(a) == [k |-> "Q", n |-> -a.n, d |-> a.d]

QSub(a, b) == QAdd(a, QNeg(b))

QMul(a, b) == Q(a.n * b.n, a.d * b.d)

(* Python float division a / b for b # 0 (the caller tests b = 0 first) *)
QDiv(a, b) == Q(a.n * b.d, a.d * b.n)

QSq(a) == QMul(a, a)

QLt(a, b) == a.n * b.d < b.n * a.d

QLe(a, b) == a.n * b.d <= b.n * a.d

QMax(a, b) == IF QLt(a, b) THEN b ELSE a

QMin(a, b) == IF QLt(b, a) THEN b ELSE a

(* sign(s) * sqrt(q) for a rational q >= 0, as a number record *)
FromRoot(s, q) ==
    IF q.n = 0 \/ s = 0 THEN Num(0)
    ELSE IF IsSquare(q.n) /\ IsSquare(q.d)
         THEN Q(s * Isqrt(q.n), Isqrt(q.d))
         ELSE [k |-> "R", n |-> s * q.n, d |-> q.d]

(* a finite number as sign and square *)
SignOf(v) == Sgn(v.n)

SquareOf(v) == IF v.k = "Q" THEN QSq(v) ELSE Q(Abs(v.n), v.d)

(* numpy.sqrt: nan (with a warning) for a negative argument *)
NpSqrt(v) ==
    IF v.k = "nan" THEN NaN
    ELSE IF v.k = "inf" THEN (IF v.n > 0 THEN v ELSE NaN)
    ELSE IF v.k = "Q" THEN (IF v.n < 0 THEN NaN ELSE FromRoot(1, v))
    ELSE NaN

(* multiplication with a numpy.float64 operand *)
NpMul(a, b) ==
    IF a.k = "nan" \/ b.k = "nan" THEN NaN
    ELSE IF a.k = "inf" \/ b.k = "inf"
         THEN (IF SignOf(a) * SignOf(b) = 0 THEN NaN ELSE Inf(SignOf(a) * SignOf(b)))
    ELSE FromRoot(SignOf(a) * SignOf(b), QMul(SquareOf(a), SquareOf(b)))

(* division with a numpy.float64 operand: x/0 is +-inf, 0/0 is nan, and   *)
(* no exception is raised                                                  *)
NpDiv(a, b) ==
    IF a.k = "nan" \/ b.k = "nan" THEN NaN
    ELSE IF a.k = "inf" THEN (IF b.k = "inf" THEN NaN
                              ELSE Inf(a.n * (IF SignOf(b) < 0 THEN -1 ELSE 1)))
    ELSE IF b.k = "inf" THEN Num(0)
    ELSE IF SignOf(b) = 0
         THEN (IF SignOf(a) = 0 THEN NaN ELSE Inf(SignOf(a)))
    ELSE FromRoot(SignOf(a) * SignOf(b), QDiv(SquareOf(a), SquareOf(b)))

(* nearest integer to the rational a/b (b > 0), ties to the even one *)
RoundHalfEven(a, b) ==
    LET f == (2 * a + b) \div (2 * b)
    IN  IF (2 * a + b) % (2 * b) = 0 /\ f % 2 # 0 THEN f - 1 ELSE f

(* round(x, 2) *)
Round2(v) ==
    IF v.k = "Q" THEN Q(RoundHalfEven(100 * v.n, v.d), 100)
    ELSE IF v.k = "R"
         THEN Q(SignOf(v) * ((Isqrt((40000 * Abs(v.n)) \div v.d) + 1) \div 2), 100)
    ELSE IF v.k = "ppf" THEN [v EXCEPT !.rnd = TRUE]
    ELSE v

(* int(x) for a finite float: truncation toward zero *)
PyInt(v) == Num(Sgn(v.n) * (Abs(v.n) \div v.d))

----------------------------------------------------------------------------
(* Outcomes of a call and entries of a result mapping                      *)

NoResult == <<>>

(* the call returned the ordered mapping res *)
Returned(res) == [kind |-> "result", exc |-> "", err |-> "", res |-> res]

(* the call ended by an exception of class exc that left the procedure *)
Raise(exc, err) == [kind |-> "raised", exc |-> exc, err |-> err, res |-> NoResult]

(* the procedure caught the exception, printed it and returned None *)
Caught(exc, err) == [kind |-> "caught", exc |-> exc, err |-> err, res |-> NoResult]

Entry(key, val) == [key |-> key, val |-> val]

Str(s) == [k |-> "str", s |-> s]

(* scipy.stats.<dist>.ppf(p, df1, df2): nan outside the domain *)
Ppf(dist, p, df1, df2) ==
    IF ~(IsQ(p) /\ p.n > 0 /\ p.n < p.d) THEN NaN
    ELSE IF dist # "norm" /\ ~(IsQ(df1) /\ df1.n > 0) THEN NaN
    ELSE IF dist = "f" /\ ~(IsQ(df2) /\ df2.n > 0) THEN NaN
    ELSE [k |-> "ppf", dist |-> dist, p |-> p, df1 |-> df1, df2 |-> df2,
          neg |-> FALSE, rnd |-> FALSE]

(* unary minus applied to a quantile *)
Negate(v) == IF v.k = "ppf" THEN [v EXCEPT !.neg = ~@] ELSE v

One == Num(1)

(* 1 - alpha/2 and 1 - alpha *)
OneMinusHalf(alpha) == QSub(One, QDiv(alpha, Num(2)))

OneMinus(alpha) == QSub(One, alpha)

----------------------------------------------------------------------------
(* hypothesis_calc.py: helpers                                             *)

RECURSIVE SumSeq(_)
SumSeq(xs) == IF xs = <<>> THEN 0 ELSE Head(xs) + SumSeq(Tail(xs))

RECURSIVE SumSqDev(_, _)
SumSqDev(xs, mean) ==
    IF xs = <<>> THEN Num(0)
    ELSE QAdd(QSq(QSub(Num(Head(xs)), mean)), SumSqDev(Tail(xs), mean))

(* the divisor of the population variance *)
VarianceDivisorN(n) == n

(* divisor of the sample variance *)
VarianceDivisor(n) == n - 1

(* calculate_sample_stats for len(sample) >= 2: (mean, S^2, S, n) *)
calculate_sample_stats(sample) ==
    LET n    == Len(sample)
        mean == Q(SumSeq(sample), n)
        variance == QDiv(SumSqDev(sample, mean), Num(VarianceDivisor(n)))
    IN  [mean |-> mean, variance |-> variance, std_dev |-> NpSqrt(variance),
         n |-> Num(n)]

(* the guard of calculate_sample_stats: TRUE when it raises *)
SampleTooShort(sample) == Len(sample) < 2

(* a closed-interval slip: alpha = 0 and alpha = 1 pass *)
validate_alpha_closed(alpha) == ~(QLe(Num(0), alpha) /\ QLe(alpha, One))

(* validate_alpha: TRUE when it raises *)
validate_alpha(alpha) == ~(QLt(Num(0), alpha) /\ QLt(alpha, One))

(* validate_sample_size: TRUE when it raises *)
validate_sample_size(n) == QLt(n, Num(2))

(* any(v is None for v in [...]) *)
AnyNone(vs) == \E i \in 1..Len(vs) : IsNone(vs[i])

NoSample == [given |-> FALSE, xs |-> <<>>]

Sample(xs) == [given |-> TRUE, xs |-> xs]

----------------------------------------------------------------------------
(* hypothesis_calc.py: the nine test procedures.  Each takes its keyword   *)
(* arguments (None when not supplied) and yields the call's outcome.       *)

Incomplete == Raise("ValueError", "Erro: Valores incompletos para o teste.")

AlphaError == Raise("ValueError", "Erro: alpha deve estar entre 0 e 1.")

SampleSizeError == Raise("ValueError", "Erro: Tamanho da amostra deve ser >= 2.")

SampleStatsError == Raise("ValueError", "Erro: Amostra deve ter pelo menos 2 elementos.")

ProportionError == Raise("ValueError", "Erro: Proporcoes devem estar entre 0 e 1.")

NullVarianceError == Raise("ValueError", "Erro: sigma0^2 deve ser positivo.")

ZeroDivision == Raise("ZeroDivisionError", "division by zero")

NoneOperand == Raise("TypeError", "unsupported operand type(s)")

(* a slip in unpacking the tuple: the standard deviation taken for S^2 *)
VarianceOfStatsSlip(st) == st.std_dev

(* the element of calculate_sample_stats' tuple that test_variance binds to s_sq *)
VarianceOfStats(st) == st.variance

(* the sample size taken for the degrees of freedom *)
OneSampleDfN(n) == n

(* df = n - 1 *)
OneSampleDf(n) == QSub(n, One)

test_mean_unknown_variance(x_bar, s, n, mu_0, alpha, sample) ==
    IF sample.given /\ SampleTooShort(sample.xs) THEN SampleStatsError
    ELSE
    LET st  == calculate_sample_stats(sample.xs)
        xb  == IF sample.given THEN st.mean ELSE x_bar
        sd  == IF sample.given THEN st.std_dev ELSE s
        nn  == IF sample.given THEN st.n ELSE n
    IN  IF AnyNone(<<xb, sd, nn, mu_0, alpha>>) THEN Incomplete
        ELSE IF validate_alpha(alpha) THEN AlphaError
        ELSE IF validate_sample_size(nn) THEN SampleSizeError
        ELSE
        LET t_calc == NpDiv(QSub(xb, mu_0), NpDiv(sd, NpSqrt(nn)))
            df     == OneSampleDf(nn)
            t_crit_bilateral  == Ppf("t", OneMinusHalf(alpha), df, None)
            t_crit_unilateral == Ppf("t", OneMinus(alpha), df, None)
        IN  Returned(<<
                Entry("x_bar", Round2(xb)),
                Entry("s", Round2(sd)),
                Entry("n", nn),
                Entry("mu_0", mu_0),
                Entry("alpha", alpha),
                Entry("t_calc", Round2(t_calc)),
                Entry("df", df),
                Entry("t_critico_bilateral", Round2(t_crit_bilateral)),
                Entry("t_critico_unilateral", Round2(t_crit_unilateral)) >>)

(* an off-by-one slip in the degrees of freedom *)
PooledDfOffByOne(n_1, n_2) == QSub(QAdd(n_1, n_2), One)

(* df = n_1 + n_2 - 2 *)
PooledDf(n_1, n_2) == QSub(QAdd(n_1, n_2), Num(2))

(* the raw samples taken as soon as one of them is supplied *)
UseAnySample(sample_1, sample_2) == sample_1.given \/ sample_2.given

(* sample_1 is not None and sample_2 is not None *)
UseSamples(sample_1, sample_2) == sample_1.given /\ sample_2.given

test_diff_means_equal_variances(x_bar_1, x_bar_2, s_sq_1, s_sq_2, n_1, n_2, alpha, sample_1, sample_2) ==
    LET both == UseSamples(sample_1, sample_2)
    IN
    IF both /\ (SampleTooShort(sample_1.xs) \/ SampleTooShort(sample_2.xs))
    THEN SampleStatsError
    ELSE
    LET st1 == calculate_sample_stats(sample_1.xs)
        st2 == calculate_sample_stats(sample_2.xs)
        xb1 == IF both THEN st1.mean ELSE x_bar_1
        xb2 == IF both THEN st2.mean ELSE x_bar_2
        v1  == IF both THEN st1.variance ELSE s_sq_1
        v2  == IF both THEN st2.variance ELSE s_sq_2
        n1  == IF both THEN st1.n ELSE n_1
        n2  == IF both THEN st2.n ELSE n_2
    IN  IF AnyNone(<<xb1, xb2, v1, v2, n1, n2, alpha>>) THEN Incomplete
        ELSE IF validate_alpha(alpha) THEN AlphaError
        ELSE IF validate_sample_size(n1) THEN SampleSizeError
        ELSE IF validate_sample_size(n2) THEN SampleSizeError
        ELSE
        LET df     == PooledDf(n1, n2)
            s_p_sq == QDiv(QAdd(QMul(QSub(n1, One), v1), QMul(QSub(n2, One), v2)),
                           QSub(QAdd(n1, n2), Num(2)))
            s_p    == NpSqrt(s_p_sq)
            t_calc == NpDiv(QSub(xb1, xb2),
                            NpMul(s_p, NpSqrt(QAdd(QDiv(One, n1), QDiv(One, n2)))))
            t_crit_bilateral  == Ppf("t", OneMinusHalf(alpha), df, None)
            t_crit_unilateral == Ppf("t", OneMinus(alpha), df, None)
        IN  Returned(<<
                Entry("x_bar_1", Round2(xb1)),
                Entry("x_bar_2", Round2(xb2)),
                Entry("s_sq_1", Round2(v1)),
                Entry("s_sq_2", Round2(v2)),
                Entry("n_1", n1),
                Entry("n_2", n2),
                Entry("alpha", alpha),
                Entry("s_p_sq", Round2(s_p_sq)),
                Entry("s_p", Round2(s_p)),
                Entry("t_calc", Round2(t_calc)),
                Entry("df", df),
                Entry("t_critico_bilateral", Round2(t_crit_bilateral)),
                Entry("t_critico_unilateral", Round2(t_crit_unilateral)) >>)

(* the statistic computed from the W_i as the result shows them *)
WelchTOfRounded(x_bar_1, x_bar_2, w_1, w_2) ==
    NpDiv(QSub(x_bar_1, x_bar_2), NpSqrt(QAdd(Round2(w_1), Round2(w_2))))

(* t_calc = (x_bar_1 - x_bar_2) / sqrt(w_1 + w_2) *)
WelchT(x_bar_1, x_bar_2, w_1, w_2) ==
    NpDiv(QSub(x_bar_1, x_bar_2), NpSqrt(QAdd(w_1, w_2)))

(* the textbook Welch-Satterthwaite degrees of freedom, with n - 1 *)
WelchSatterthwaiteClassic(w_1, w_2, n_1, n_2) ==
    QDiv(QSq(QAdd(w_1, w_2)),
         QAdd(QDiv(QSq(w_1), QSub(n_1, One)), QDiv(QSq(w_2), QSub(n_2, One))))

(* df = (w_1 + w_2)^2 / (w_1^2/(n_1 + 1) + w_2^2/(n_2 + 1)) *)
WelchSatterthwaite(w_1, w_2, n_1, n_2) ==
    QDiv(QSq(QAdd(w_1, w_2)),
         QAdd(QDiv(QSq(w_1), QAdd(n_1, One)), QDiv(QSq(w_2), QAdd(n_2, One))))

test_diff_means_welch(x_bar_1, x_bar_2, s_sq_1, s_sq_2, n_1, n_2, alpha, sample_1, sample_2) ==
    LET both == sample_1.given /\ sample_2.given
    IN
    IF both /\ (SampleTooShort(sample_1.xs) \/ SampleTooShort(sample_2.xs))
    THEN SampleStatsError
    ELSE
    LET st1 == calculate_sample_stats(sample_1.xs)
        st2 == calculate_sample_stats(sample_2.xs)
        xb1 == IF both THEN st1.mean ELSE x_bar_1
        xb2 == IF both THEN st2.mean ELSE x_bar_2
        v1  == IF both THEN st1.variance ELSE s_sq_1
        v2  == IF both THEN st2.variance ELSE s_sq_2
        n1  == IF both THEN st1.n ELSE n_1
        n2  == IF both THEN st2.n ELSE n_2
    IN  IF AnyNone(<<xb1, xb2, v1, v2, n1, n2, alpha>>) THEN Incomplete
        ELSE IF validate_alpha(alpha) THEN AlphaError
        ELSE IF validate_sample_size(n1) THEN SampleSizeError
        ELSE IF validate_sample_size(n2) THEN SampleSizeError
        ELSE
        LET w_1    == QDiv(v1, n1)
            w_2    == QDiv(v2, n2)
            t_calc == WelchT(xb1, xb2, w_1, w_2)
            numerator   == QSq(QAdd(w_1, w_2))
            denominator == QAdd(QDiv(QSq(w_1), QAdd(n1, One)),
                                QDiv(QSq(w_2), QAdd(n2, One)))
        IN  IF IsZero(denominator) THEN ZeroDivision
            ELSE
            LET df == WelchSatterthwaite(w_1, w_2, n1, n2)
                t_crit_bilateral  == Ppf("t", OneMinusHalf(alpha), df, None)
                t_crit_unilateral == Ppf("t", OneMinus(alpha), df, None)
            IN  Returned(<<
                    Entry("x_bar_1", Round2(xb1)),
                    Entry("x_bar_2", Round2(xb2)),
                    Entry("s_sq_1", Round2(v1)),
                    Entry("s_sq_2", Round2(v2)),
                    Entry("n_1", n1),
                    Entry("n_2", n2),
                    Entry("alpha", alpha),
                    Entry("w_1", Round2(w_1)),
                    Entry("w_2", Round2(w_2)),
                    Entry("t_calc", Round2(t_calc)),
                    Entry("df", Round2(df)),
                    Entry("t_critico_bilateral", Round2(t_crit_bilateral)),
                    Entry("t_critico_unilateral", Round2(t_crit_unilateral)) >>)

test_paired_samples(d_bar, s_d, n, delta, alpha, sample_diff) ==
    IF sample_diff.given /\ SampleTooShort(sample_diff.xs) THEN SampleStatsError
    ELSE
    LET st == calculate_sample_stats(sample_diff.xs)
        db == IF sample_diff.given THEN st.mean ELSE d_bar
        sd == IF sample_diff.given THEN st.std_dev ELSE s_d
        nn == IF sample_diff.given THEN st.n ELSE n
    IN  IF AnyNone(<<db, sd, nn, alpha>>) THEN Incomplete
        ELSE IF validate_alpha(alpha) THEN AlphaError
        ELSE IF validate_sample_size(nn) THEN SampleSizeError
        ELSE IF IsNone(delta) THEN NoneOperand
        ELSE
        LET t_calc == NpDiv(QSub(db, delta), NpDiv(sd, NpSqrt(nn)))
            df     == QSub(nn, One)
            t_crit_bilateral  == Ppf("t", OneMinusHalf(alpha), df, None)
            t_crit_unilateral == Ppf("t", OneMinus(alpha), df, None)
        IN  Returned(<<
                Entry("d_bar", Round2(db)),
                Entry("s_d", Round2(sd)),
                Entry("n", nn),
                Entry("delta", delta),
                Entry("alpha", alpha),
                Entry("t_calc", Round2(t_calc)),
                Entry("df", df),
                Entry("t_critico_bilateral", Round2(t_crit_bilateral)),
                Entry("t_critico_unilateral", Round2(t_crit_unilateral)) >>)

test_mean_known_variance(x_bar, sigma, n, mu_0, alpha, sample) ==
    IF sample.given /\ Len(sample.xs) = 0 THEN ZeroDivision
    ELSE
    LET xb == IF sample.given THEN Q(SumSeq(sample.xs), Len(sample.xs)) ELSE x_bar
        nn == IF sample.given THEN Num(Len(sample.xs)) ELSE n
    IN  IF AnyNone(<<xb, sigma, nn, mu_0, alpha>>) THEN Incomplete
        ELSE IF validate_alpha(alpha) THEN AlphaError
        ELSE IF validate_sample_size(nn) THEN SampleSizeError
        ELSE
        LET z_calc == NpDiv(QSub(xb, mu_0), NpDiv(sigma, NpSqrt(nn)))
            z_crit_bilateral  == Ppf("norm", OneMinusHalf(alpha), None, None)
            z_crit_unilateral == Ppf("norm", OneMinus(alpha), None, None)
        IN  Returned(<<
                Entry("x_bar", Round2(xb)),
                Entry("sigma", sigma),
                Entry("n", nn),
                Entry("mu_0", mu_0),
                Entry("alpha", alpha),
                Entry("z_calc", Round2(z_calc)),
                Entry("z_critico_bilateral", Round2(z_crit_bilateral)),
                Entry("z_critico_unilateral", Round2(z_crit_unilateral)) >>)

(* an open-interval slip: the boundary values 0 and 1 are refused *)
InOpenUnitInterval(p) == QLt(Num(0), p) /\ QLt(p, One)

(* 0 <= p <= 1 *)
InUnitInterval(p) == QLe(Num(0), p) /\ QLe(p, One)

test_proportion(p_hat, p_0, n, alpha, successes) ==
    LET derive == ~IsNone(successes) /\ ~IsNone(n)
    IN
    IF derive /\ IsZero(n) THEN ZeroDivision
    ELSE
    LET ph == IF derive THEN QDiv(successes, n) ELSE p_hat
    IN  IF AnyNone(<<ph, p_0, n, alpha>>) THEN Incomplete
        ELSE IF validate_alpha(alpha) THEN AlphaError
        ELSE IF validate_sample_size(n) THEN SampleSizeError
        ELSE IF ~(InUnitInterval(ph) /\ InUnitInterval(p_0)) THEN ProportionError
        ELSE
        LET z_calc == NpDiv(QSub(ph, p_0),
                            NpSqrt(QDiv(QMul(p_0, QSub(One, p_0)), n)))
            z_crit_bilateral  == Ppf("norm", OneMinusHalf(alpha), None, None)
            z_crit_unilateral == Ppf("norm", OneMinus(alpha), None, None)
        IN  Returned(<<
                Entry("p_hat", Round2(ph)),
                Entry("p_0", p_0),
                Entry("n", n),
                Entry("alpha", alpha),
                Entry("z_calc", Round2(z_calc)),
                Entry("z_critico_bilateral", Round2(z_crit_bilateral)),
                Entry("z_critico_unilateral", Round2(z_crit_unilateral)) >>)

(* a strict-comparison slip: sigma_0_sq = 0 passes *)
NegativeNullVariance(sigma_0_sq) == QLt(sigma_0_sq, Num(0))

(* sigma_0_sq <= 0 *)
NonPositiveNullVariance(sigma_0_sq) == QLe(sigma_0_sq, Num(0))

test_variance(s_sq, sigma_0_sq, n, alpha, sample) ==
    IF sample.given /\ SampleTooShort(sample.xs) THEN SampleStatsError
    ELSE
    LET st == calculate_sample_stats(sample.xs)
        v  == IF sample.given THEN VarianceOfStats(st) ELSE s_sq
        nn == IF sample.given THEN st.n ELSE n
    IN  IF AnyNone(<<v, sigma_0_sq, nn, alpha>>) THEN Incomplete
        ELSE IF validate_alpha(alpha) THEN AlphaError
        ELSE IF validate_sample_size(nn) THEN SampleSizeError
        ELSE IF NonPositiveNullVariance(sigma_0_sq) THEN NullVarianceError
        ELSE
        LET chi_sq_calc == QDiv(QMul(QSub(nn, One), v), sigma_0_sq)
            df == QSub(nn, One)
            chi_sq_crit_lower == Ppf("chi2", QDiv(alpha, Num(2)), df, None)
            chi_sq_crit_upper == Ppf("chi2", OneMinusHalf(alpha), df, None)
            chi_sq_crit_upper_uni == Ppf("chi2", OneMinus(alpha), df, None)
            chi_sq_crit_lower_uni == Ppf("chi2", alpha, df, None)
        IN  Returned(<<
                Entry("s_sq", Round2(v)),
                Entry("sigma_0_sq", sigma_0_sq),
                Entry("n", nn),
                Entry("alpha", alpha),
                Entry("chi_sq_calc", Round2(chi_sq_calc)),
                Entry("df", df),
                Entry("chi_sq_critico_bilateral_lower", Round2(chi_sq_crit_lower)),
                Entry("chi_sq_critico_bilateral_upper", Round2(chi_sq_crit_upper)),
                Entry("chi_sq_critico_unilateral_dir", Round2(chi_sq_crit_upper_uni)),
                Entry("chi_sq_critico_unilateral_esq", Round2(chi_sq_crit_lower_uni)) >>)

(* the plain average of the two rates *)
AverageOfRates(p_hat_1, n_1, p_hat_2, n_2) == QDiv(QAdd(p_hat_1, p_hat_2), Num(2))

(* the pooled proportion: the rates weighted by the sample sizes *)
PooledProportion(p_hat_1, n_1, p_hat_2, n_2) ==
    QDiv(QAdd(QMul(p_hat_1, n_1), QMul(p_hat_2, n_2)), QAdd(n_1, n_2))

test_diff_proportions(p_hat_1, p_hat_2, n_1, n_2, alpha, successes_1, successes_2) ==
    LET derive == ~IsNone(successes_1) /\ ~IsNone(successes_2)
    IN
    IF derive /\ IsNone(n_1) THEN NoneOperand
    ELSE IF derive /\ IsZero(n_1) THEN ZeroDivision
    ELSE IF derive /\ IsNone(n_2) THEN NoneOperand
    ELSE IF derive /\ IsZero(n_2) THEN ZeroDivision
    ELSE
    LET p1 == IF derive THEN QDiv(successes_1, n_1) ELSE p_hat_1
        p2 == IF derive THEN QDiv(successes_2, n_2) ELSE p_hat_2
    IN  IF AnyNone(<<p1, p2, n_1, n_2, alpha>>) THEN Incomplete
        ELSE IF validate_alpha(alpha) THEN AlphaError
        ELSE IF validate_sample_size(n_1) THEN SampleSizeError
        ELSE IF validate_sample_size(n_2) THEN SampleSizeError
        ELSE IF ~(InUnitInterval(p1) /\ InUnitInterval(p2)) THEN ProportionError
        ELSE
        LET p_hat  == PooledProportion(p1, n_1, p2, n_2)
            z_calc == NpDiv(QSub(p1, p2),
                            NpSqrt(QMul(QMul(p_hat, QSub(One, p_hat)),
                                        QAdd(QDiv(One, n_1), QDiv(One, n_2)))))
            z_crit_bilateral  == Ppf("norm", OneMinusHalf(alpha), None, None)
            z_crit_unilateral == Ppf("norm", OneMinus(alpha), None, None)
        IN  Returned(<<
                Entry("p_hat_1", Round2(p1)),
                Entry("p_hat_2", Round2(p2)),
                Entry("n_1", n_1),
                Entry("n_2", n_2),
                Entry("alpha", alpha),
                Entry("p_hat_pooled", Round2(p_hat)),
                Entry("z_calc", Round2(z_calc)),
                Entry("z_critico_bilateral", Round2(z_crit_bilateral)),
                Entry("z_critico_unilateral", Round2(z_crit_unilateral)) >>)

test_diff_variances(s_sq_1, s_sq_2, n_1, n_2, alpha, sample_1, sample_2) ==
    LET both == sample_1.given /\ sample_2.given
    IN
    IF both /\ (SampleTooShort(sample_1.xs) \/ SampleTooShort(sample_2.xs))
    THEN SampleStatsError
    ELSE
    LET st1 == calculate_sample_stats(sample_1.xs)
        st2 == calculate_sample_stats(sample_2.xs)
        v1  == IF both THEN st1.variance ELSE s_sq_1
        v2  == IF both THEN st2.variance ELSE s_sq_2
        n1  == IF both THEN st1.n ELSE n_1
        n2  == IF both THEN st2.n ELSE n_2
    IN  IF AnyNone(<<v1, v2, n1, n2, alpha>>) THEN Incomplete
        ELSE IF validate_alpha(alpha) THEN AlphaError
        ELSE IF validate_sample_size(n1) THEN SampleSizeError
        ELSE IF validate_sample_size(n2) THEN SampleSizeError
        ELSE IF IsZero(v2) THEN ZeroDivision
        ELSE
        LET f_calc == QDiv(v1, v2)
            df_1 == QSub(n1, One)
            df_2 == QSub(n2, One)
            f_crit_bilateral  == Ppf("f", OneMinusHalf(alpha), df_1, df_2)
            f_crit_unilateral == Ppf("f", OneMinus(alpha), df_1, df_2)
        IN  Returned(<<
                Entry("s_sq_1", Round2(v1)),
                Entry("s_sq_2", Round2(v2)),
                Entry("n_1", n1),
                Entry("n_2", n2),
                Entry("alpha", alpha),
                Entry("f_calc", Round2(f_calc)),
                Entry("df_1", df_1),
                Entry("df_2", df_2),
                Entry("f_critico_bilateral", Round2(f_crit_bilateral)),
                Entry("f_critico_unilateral", Round2(f_crit_unilateral)) >>)

----------------------------------------------------------------------------
(* calculadora_testes_hipoteses.py.  Every procedure reads its inputs as   *)
(* strings from the console; a string is modelled by a token               *)
(*   [txt |-> "num", v |-> x]   text that float() converts to x            *)
(*   [txt |-> "bad", ...]       text that float() rejects                  *)
(*   [txt |-> "empty", ...]     the empty line                             *)
(* A ValueError raised inside a procedure is caught by the procedure,      *)
(* printed, and None is returned; any other exception leaves it.           *)

NumTok(v) == [txt |-> "num", v |-> v]

BadTok == [txt |-> "bad", v |-> None]

EmptyTok == [txt |-> "empty", v |-> None]

(* validar_entrada_numerica: TRUE when float(valor_str) raises *)
validar_entrada_numerica(tok) == tok.txt # "num"

(* the prompts are converted in order: some conversion raises *)
AnyInvalid(toks) == \E i \in 1..Len(toks) : validar_entrada_numerica(toks[i])

(* input(...) or "0" *)
OrZero(tok) == IF tok.txt = "empty" THEN NumTok(Num(0)) ELSE tok

(* str.lower().strip() on the tail-type answers the model enumerates *)
LowerStrip(s) ==
    CASE s = " Bilateral "     -> "bilateral"
      [] s = "UNILATERAL_DIR"  -> "unilateral_dir"
      [] s = "Unilateral_Esq " -> "unilateral_esq"
      [] OTHER                 -> s

TiposTeste == {"bilateral", "unilateral_dir", "unilateral_esq"}

(* a copy-paste slip: the F test given the tail types of the other tests *)
TiposTesteCopiados == {"bilateral", "unilateral_dir", "unilateral_esq"}

TiposTesteF == {"bilateral", "unilateral_dir"}

(* the checks of validar_parametros with alpha examined before n *)
validar_parametros_alpha_primeiro(n, alpha, s) ==
    IF ~IsNone(alpha) /\ (QLe(alpha, Num(0)) \/ QLe(One, alpha)) THEN "alpha"
    ELSE IF ~IsNone(n) /\ QLe(n, One) THEN "n"
    ELSE IF ~IsNone(s) /\ QLt(s, Num(0)) THEN "S"
    ELSE "ok"

(* validar_parametros: the check that raises, or "ok" *)
validar_parametros(n, alpha, s) ==
    IF ~IsNone(n) /\ QLe(n, One) THEN "n"
    ELSE IF ~IsNone(alpha) /\ (QLe(alpha, Num(0)) \/ QLe(One, alpha)) THEN "alpha"
    ELSE IF ~IsNone(s) /\ QLt(s, Num(0)) THEN "S"
    ELSE "ok"

(* the name of the first prompt, in prompt order, whose answer is no number *)
FirstInvalid(toks, nomes) ==
    nomes[CHOOSE i \in 1..Len(toks) :
             /\ validar_entrada_numerica(toks[i])
             /\ \A j \in 1..(i - 1) : ~validar_entrada_numerica(toks[j])]

(* the message of validar_entrada_numerica for the variable nome_var *)
NumeroInvalido(nome_var) ==
    CASE nome_var = "X" -> "'X' deve ser um numero valido"
      [] nome_var = "mu0" -> "'mu0' deve ser um numero valido"
      [] nome_var = "S" -> "'S' deve ser um numero valido"
      [] nome_var = "n" -> "'n' deve ser um numero valido"
      [] nome_var = "alpha" -> "'alpha' deve ser um numero valido"
      [] nome_var = "sigma" -> "'sigma' deve ser um numero valido"
      [] nome_var = "sigma0^2" -> "'sigma0^2' deve ser um numero valido"
      [] nome_var = "p" -> "'p' deve ser um numero valido"
      [] nome_var = "p0" -> "'p0' deve ser um numero valido"
      [] nome_var = "X1" -> "'X1' deve ser um numero valido"
      [] nome_var = "X2" -> "'X2' deve ser um numero valido"
      [] nome_var = "S1" -> "'S1' deve ser um numero valido"
      [] nome_var = "S2" -> "'S2' deve ser um numero valido"
      [] nome_var = "n1" -> "'n1' deve ser um numero valido"
      [] nome_var = "n2" -> "'n2' deve ser um numero valido"
      [] nome_var = "d" -> "'d' deve ser um numero valido"
      [] nome_var = "Delta" -> "'Delta' deve ser um numero valido"
      [] nome_var = "Sd" -> "'Sd' deve ser um numero valido"
      [] nome_var = "sigma1" -> "'sigma1' deve ser um numero valido"
      [] nome_var = "sigma2" -> "'sigma2' deve ser um numero valido"
      [] nome_var = "p1" -> "'p1' deve ser um numero valido"
      [] nome_var = "p2" -> "'p2' deve ser um numero valido"

NumericFormatError(nome_var) == Caught("ValueError", NumeroInvalido(nome_var))

TipoError == Caught("ValueError", "Tipo de teste invalido")

TipoErrorF == Caught("ValueError", "Tipo de teste invalido para teste F")

ParamError(which) ==
    Caught("ValueError",
           CASE which = "n"     -> "Tamanho da amostra 'n' deve ser > 1"
             [] which = "alpha" -> "Nivel de significancia deve estar entre 0 e 1"
             [] OTHER           -> "Desvio padrao 'S' nao pode ser negativo")

VarianciaHipoteticaError == Caught("ValueError", "Variancia hipotetica deve ser positiva")

ProporcoesError == Caught("ValueError", "Proporcoes devem estar entre 0 e 1")

(* a separate lookup of quantile(alpha) for the lower tail *)
CriticoPorCauda(dist, tipo_teste, alpha, gl) ==
    IF tipo_teste = "bilateral" THEN Ppf(dist, OneMinusHalf(alpha), gl, None)
    ELSE IF tipo_teste = "unilateral_dir" THEN Ppf(dist, OneMinus(alpha), gl, None)
    ELSE Ppf(dist, alpha, gl, None)

(* the critical value of a symmetric distribution for the tail type *)
CriticoSimetrico(dist, tipo_teste, alpha, gl) ==
    IF tipo_teste = "bilateral" THEN Ppf(dist, OneMinusHalf(alpha), gl, None)
    ELSE IF tipo_teste = "unilateral_dir" THEN Ppf(dist, OneMinus(alpha), gl, None)
    ELSE Negate(Ppf(dist, OneMinus(alpha), gl, None))

t_media_var_desconhecida(x_barra_s, mu_0_s, s_s, n_s, alpha_s, tipo_s) ==
    IF AnyInvalid(<<x_barra_s, mu_0_s, s_s, n_s, alpha_s>>)
    THEN NumericFormatError(FirstInvalid(<<x_barra_s, mu_0_s, s_s, n_s, alpha_s>>,
                                         <<"X", "mu0", "S", "n", "alpha">>))
    ELSE
    LET x_barra == x_barra_s.v
        mu_0    == mu_0_s.v
        s       == s_s.v
        n       == n_s.v
        alpha   == alpha_s.v
        tipo_teste == LowerStrip(tipo_s)
    IN  IF tipo_teste \notin TiposTeste THEN TipoError
        ELSE IF validar_parametros(n, alpha, s) # "ok"
             THEN ParamError(validar_parametros(n, alpha, s))
        ELSE
        LET gl     == QSub(n, One)
            t_calc == NpDiv(QSub(x_barra, mu_0), NpDiv(s, NpSqrt(n)))
            t_crit == CriticoSimetrico("t", tipo_teste, alpha, gl)
        IN  Returned(<<
                Entry("Tipo de Teste", Str(tipo_teste)),
                Entry("Graus de Liberdade (gl)", PyInt(gl)),
                Entry("t_calculado", t_calc),
                Entry("t_critico", t_crit),
                Entry("Nivel de Significancia (alpha)", alpha) >>)

z_media_var_conhecida(x_barra_s, mu_0_s, sigma_s, n_s, alpha_s, tipo_s) ==
    IF AnyInvalid(<<x_barra_s, mu_0_s, sigma_s, n_s, alpha_s>>)
    THEN NumericFormatError(FirstInvalid(<<x_barra_s, mu_0_s, sigma_s, n_s, alpha_s>>,
                                         <<"X", "mu0", "sigma", "n", "alpha">>))
    ELSE
    LET x_barra == x_barra_s.v
        mu_0    == mu_0_s.v
        sigma   == sigma_s.v
        n       == n_s.v
        alpha   == alpha_s.v
        tipo_teste == LowerStrip(tipo_s)
    IN  IF tipo_teste \notin TiposTeste THEN TipoError
        ELSE IF validar_parametros(n, alpha, sigma) # "ok"
             THEN ParamError(validar_parametros(n, alpha, sigma))
        ELSE
        LET z_calc == NpDiv(QSub(x_barra, mu_0), NpDiv(sigma, NpSqrt(n)))
            z_crit == CriticoSimetrico("norm", tipo_teste, alpha, None)
        IN  Returned(<<
                Entry("Tipo de Teste", Str(tipo_teste)),
                Entry("z_calculado", z_calc),
                Entry("z_critico", z_crit),
                Entry("Nivel de Significancia (alpha)", alpha) >>)

(* the symmetric-distribution habit carried over: minus the upper quantile *)
Chi2CriticoNegado(alpha, gl) == Negate(Ppf("chi2", OneMinus(alpha), gl, None))

(* the lower-tailed chi-square critical value *)
Chi2CriticoEsquerdo(alpha, gl) == Ppf("chi2", alpha, gl, None)

chi2_variancia(s_s, sigma2_0_s, n_s, alpha_s, tipo_s) ==
    IF AnyInvalid(<<s_s, sigma2_0_s, n_s, alpha_s>>)
    THEN NumericFormatError(FirstInvalid(<<s_s, sigma2_0_s, n_s, alpha_s>>,
                                         <<"S", "sigma0^2", "n", "alpha">>))
    ELSE
    LET s        == s_s.v
        sigma2_0 == sigma2_0_s.v
        n        == n_s.v
        alpha    == alpha_s.v
        tipo_teste == LowerStrip(tipo_s)
    IN  IF tipo_teste \notin TiposTeste THEN TipoError
        ELSE IF validar_parametros(n, alpha, s) # "ok"
             THEN ParamError(validar_parametros(n, alpha, s))
        ELSE IF QLe(sigma2_0, Num(0)) THEN VarianciaHipoteticaError
        ELSE
        LET gl        == QSub(n, One)
            chi2_calc == QDiv(QMul(QSub(n, One), QSq(s)), sigma2_0)
        IN  IF tipo_teste = "bilateral"
            THEN Returned(<<
                Entry("Tipo de Teste", Str(tipo_teste)),
                Entry("Graus de Liberdade (gl)", PyInt(gl)),
                Entry("chi2_calculado", chi2_calc),
                Entry("chi2_critico (inferior)", Ppf("chi2", QDiv(alpha, Num(2)), gl, None)),
                Entry("chi2_critico (superior)", Ppf("chi2", OneMinusHalf(alpha), gl, None)),
                Entry("Nivel de Significancia (alpha)", alpha) >>)
            ELSE IF tipo_teste = "unilateral_dir"
            THEN Returned(<<
                Entry("Tipo de Teste", Str(tipo_teste)),
                Entry("Graus de Liberdade (gl)", PyInt(gl)),
                Entry("chi2_calculado", chi2_calc),
                Entry("chi2_critico", Ppf("chi2", OneMinus(alpha), gl, None)),
                Entry("Nivel de Significancia (alpha)", alpha) >>)
            ELSE Returned(<<
                Entry("Tipo de Teste", Str(tipo_teste)),
                Entry("Graus de Liberdade (gl)", PyInt(gl)),
                Entry("chi2_calculado", chi2_calc),
                Entry("chi2_critico", Chi2CriticoEsquerdo(alpha, gl)),
                Entry("Nivel de Significancia (alpha)", alpha) >>)

z_proporcao(p_hat_s, p_0_s, n_s, alpha_s, tipo_s) ==
    IF AnyInvalid(<<p_hat_s, p_0_s, n_s, alpha_s>>)
    THEN NumericFormatError(FirstInvalid(<<p_hat_s, p_0_s, n_s, alpha_s>>,
                                         <<"p", "p0", "n", "alpha">>))
    ELSE
    LET p_hat == p_hat_s.v
        p_0   == p_0_s.v
        n     == n_s.v
        alpha == alpha_s.v
        tipo_teste == LowerStrip(tipo_s)
    IN  IF tipo_teste \notin TiposTeste THEN TipoError
        ELSE IF validar_parametros(n, alpha, None) # "ok"
             THEN ParamError(validar_parametros(n, alpha, None))
        ELSE IF ~InUnitInterval(p_hat) \/ ~InUnitInterval(p_0) THEN ProporcoesError
        ELSE
        LET z_calc == NpDiv(QSub(p_hat, p_0),
                            NpSqrt(QDiv(QMul(p_0, QSub(One, p_0)), n)))
            z_crit == CriticoSimetrico("norm", tipo_teste, alpha, None)
        IN  Returned(<<
                Entry("Tipo de Teste", Str(tipo_teste)),
                Entry("z_calculado", z_calc),
                Entry("z_critico", z_crit),
                Entry("Nivel de Significancia (alpha)", alpha) >>)

t_dif_medias_var_iguais(x1_s, x2_s, s1_s, s2_s, n1_s, n2_s, alpha_s, tipo_s) ==
    IF AnyInvalid(<<x1_s, x2_s, s1_s, s2_s, n1_s, n2_s, alpha_s>>)
    THEN NumericFormatError(FirstInvalid(<<x1_s, x2_s, s1_s, s2_s, n1_s, n2_s, alpha_s>>,
                                         <<"X1", "X2", "S1", "S2", "n1", "n2", "alpha">>))
    ELSE
    LET x1_barra == x1_s.v
        x2_barra == x2_s.v
        s1    == s1_s.v
        s2    == s2_s.v
        n1    == n1_s.v
        n2    == n2_s.v
        alpha == alpha_s.v
        tipo_teste == LowerStrip(tipo_s)
    IN  IF tipo_teste \notin TiposTeste THEN TipoError
        ELSE IF validar_parametros(n1, alpha, s1) # "ok"
             THEN ParamError(validar_parametros(n1, alpha, s1))
        ELSE IF validar_parametros(n2, alpha, s2) # "ok"
             THEN ParamError(validar_parametros(n2, alpha, s2))
        ELSE
        LET gl     == QSub(QAdd(n1, n2), Num(2))
            sp2    == QDiv(QAdd(QMul(QSub(n1, One), QSq(s1)),
                                QMul(QSub(n2, One), QSq(s2))), gl)
            sp     == NpSqrt(sp2)
            t_calc == NpDiv(QSub(x1_barra, x2_barra),
                            NpMul(sp, NpSqrt(QAdd(QDiv(One, n1), QDiv(One, n2)))))
            t_crit == CriticoSimetrico("t", tipo_teste, alpha, gl)
        IN  Returned(<<
                Entry("Tipo de Teste", Str(tipo_teste)),
                Entry("Graus de Liberdade (gl)", PyInt(gl)),
                Entry("Variancia Ponderada (Sp2)", sp2),
                Entry("Desvio Padrao Ponderado (Sp)", sp),
                Entry("t_calculado", t_calc),
                Entry("t_critico", t_crit),
                Entry("Nivel de Significancia (alpha)", alpha) >>)

t_welch_dif_medias(x1_s, x2_s, s1_s, s2_s, n1_s, n2_s, alpha_s, tipo_s) ==
    IF AnyInvalid(<<x1_s, x2_s, s1_s, s2_s, n1_s, n2_s, alpha_s>>)
    THEN NumericFormatError(FirstInvalid(<<x1_s, x2_s, s1_s, s2_s, n1_s, n2_s, alpha_s>>,
                                         <<"X1", "X2", "S1", "S2", "n1", "n2", "alpha">>))
    ELSE
    LET x1_barra == x1_s.v
        x2_barra == x2_s.v
        s1    == s1_s.v
        s2    == s2_s.v
        n1    == n1_s.v
        n2    == n2_s.v
        alpha == alpha_s.v
        tipo_teste == LowerStrip(tipo_s)
    IN  IF tipo_teste \notin TiposTeste THEN TipoError
        ELSE IF validar_parametros(n1, alpha, s1) # "ok"
             THEN ParamError(validar_parametros(n1, alpha, s1))
        ELSE IF validar_parametros(n2, alpha, s2) # "ok"
             THEN ParamError(validar_parametros(n2, alpha, s2))
        ELSE
        LET W1 == QDiv(QSq(s1), n1)
            W2 == QDiv(QSq(s2), n2)
            numerador   == QSq(QAdd(W1, W2))
            denominador == QAdd(QDiv(QSq(W1), QAdd(n1, One)),
                                QDiv(QSq(W2), QAdd(n2, One)))
        IN  IF IsZero(denominador) THEN ZeroDivision
            ELSE
            LET gl_welch == QDiv(numerador, denominador)
                t_calc   == NpDiv(QSub(x1_barra, x2_barra), NpSqrt(QAdd(W1, W2)))
                t_crit   == CriticoSimetrico("t", tipo_teste, alpha, gl_welch)
            IN  Returned(<<
                    Entry("Tipo de Teste", Str(tipo_teste)),
                    Entry("W1 (S1^2/n1)", W1),
                    Entry("W2 (S2^2/n2)", W2),
                    Entry("Graus de Liberdade Welch (v)", gl_welch),
                    Entry("t_calculado", t_calc),
                    Entry("t_critico", t_crit),
                    Entry("Nivel de Significancia (alpha)", alpha) >>)

t_pareado(d_barra_s, delta_s, sd_s, n_s, alpha_s, tipo_s) ==
    IF AnyInvalid(<<d_barra_s, OrZero(delta_s), sd_s, n_s, alpha_s>>)
    THEN NumericFormatError(FirstInvalid(<<d_barra_s, OrZero(delta_s), sd_s, n_s, alpha_s>>,
                                         <<"d", "Delta", "Sd", "n", "alpha">>))
    ELSE
    LET d_barra == d_barra_s.v
        delta   == OrZero(delta_s).v
        sd      == sd_s.v
        n       == n_s.v
        alpha   == alpha_s.v
        tipo_teste == LowerStrip(tipo_s)
    IN  IF tipo_teste \notin TiposTeste THEN TipoError
        ELSE IF validar_parametros(n, alpha, sd) # "ok"
             THEN ParamError(validar_parametros(n, alpha, sd))
        ELSE
        LET gl     == QSub(n, One)
            t_calc == NpDiv(QSub(d_barra, delta), NpDiv(sd, NpSqrt(n)))
            t_crit == CriticoSimetrico("t", tipo_teste, alpha, gl)
        IN  Returned(<<
                Entry("Tipo de Teste", Str(tipo_teste)),
                Entry("Graus de Liberdade (gl)", PyInt(gl)),
                Entry("Diferenca Hipotetica (Delta)", delta),
                Entry("t_calculado", t_calc),
                Entry("t_critico", t_crit),
                Entry("Nivel de Significancia (alpha)", alpha) >>)

z_dif_medias_var_conhecidas(x1_s, x2_s, sigma1_s, sigma2_s, n1_s, n2_s, alpha_s, tipo_s) ==
    IF AnyInvalid(<<x1_s, x2_s, sigma1_s, sigma2_s, n1_s, n2_s, alpha_s>>)
    THEN NumericFormatError(FirstInvalid(<<x1_s, x2_s, sigma1_s, sigma2_s, n1_s, n2_s, alpha_s>>,
                                         <<"X1", "X2", "sigma1", "sigma2", "n1", "n2", "alpha">>))
    ELSE
    LET x1_barra == x1_s.v
        x2_barra == x2_s.v
        sigma1 == sigma1_s.v
        sigma2 == sigma2_s.v
        n1     == n1_s.v
        n2     == n2_s.v
        alpha  == alpha_s.v
        tipo_teste == LowerStrip(tipo_s)
    IN  IF tipo_teste \notin TiposTeste THEN TipoError
        ELSE IF validar_parametros(n1, alpha, sigma1) # "ok"
             THEN ParamError(validar_parametros(n1, alpha, sigma1))
        ELSE IF validar_parametros(n2, alpha, sigma2) # "ok"
             THEN ParamError(validar_parametros(n2, alpha, sigma2))
        ELSE
        LET z_calc == NpDiv(QSub(x1_barra, x2_barra),
                            NpSqrt(QAdd(QDiv(QSq(sigma1), n1), QDiv(QSq(sigma2), n2))))
            z_crit == CriticoSimetrico("norm", tipo_teste, alpha, None)
        IN  Returned(<<
                Entry("Tipo de Teste", Str(tipo_teste)),
                Entry("z_calculado", z_calc),
                Entry("z_critico", z_crit),
                Entry("Nivel de Significancia (alpha)", alpha) >>)

z_dif_proporcoes(p1_s, p2_s, n1_s, n2_s, alpha_s, tipo_s) ==
    IF AnyInvalid(<<p1_s, p2_s, n1_s, n2_s, alpha_s>>)
    THEN NumericFormatError(FirstInvalid(<<p1_s, p2_s, n1_s, n2_s, alpha_s>>,
                                         <<"p1", "p2", "n1", "n2", "alpha">>))
    ELSE
    LET p1_hat == p1_s.v
        p2_hat == p2_s.v
        n1     == n1_s.v
        n2     == n2_s.v
        alpha  == alpha_s.v
        tipo_teste == LowerStrip(tipo_s)
    IN  IF tipo_teste \notin TiposTeste THEN TipoError
        ELSE IF validar_parametros(n1, alpha, None) # "ok"
             THEN ParamError(validar_parametros(n1, alpha, None))
        ELSE IF validar_parametros(n2, alpha, None) # "ok"
             THEN ParamError(validar_parametros(n2, alpha, None))
        ELSE IF ~InUnitInterval(p1_hat) \/ ~InUnitInterval(p2_hat) THEN ProporcoesError
        ELSE
        LET f1 == QMul(p1_hat, n1)
            f2 == QMul(p2_hat, n2)
            p_combinada == QDiv(QAdd(f1, f2), QAdd(n1, n2))
            z_calc == NpDiv(QSub(p1_hat, p2_hat),
                            NpSqrt(QMul(QMul(p_combinada, QSub(One, p_combinada)),
                                        QAdd(QDiv(One, n1), QDiv(One, n2)))))
            z_crit == CriticoSimetrico("norm", tipo_teste, alpha, None)
        IN  Returned(<<
                Entry("Tipo de Teste", Str(tipo_teste)),
                Entry("Proporcao Combinada (p)", p_combinada),
                Entry("z_calculado", z_calc),
                Entry("z_critico", z_crit),
                Entry("Nivel de Significancia (alpha)", alpha) >>)

f_dif_variancias(s1_s, s2_s, n1_s, n2_s, alpha_s, tipo_s) ==
    IF AnyInvalid(<<s1_s, s2_s, n1_s, n2_s, alpha_s>>)
    THEN NumericFormatError(FirstInvalid(<<s1_s, s2_s, n1_s, n2_s, alpha_s>>,
                                         <<"S1", "S2", "n1", "n2", "alpha">>))
    ELSE
    LET s1    == s1_s.v
        s2    == s2_s.v
        n1    == n1_s.v
        n2    == n2_s.v
        alpha == alpha_s.v
        tipo_teste == LowerStrip(tipo_s)
    IN  IF tipo_teste \notin TiposTesteF THEN TipoErrorF
        ELSE IF validar_parametros(n1, alpha, s1) # "ok"
             THEN ParamError(validar_parametros(n1, alpha, s1))
        ELSE IF validar_parametros(n2, alpha, s2) # "ok"
             THEN ParamError(validar_parametros(n2, alpha, s2))
        ELSE
        LET gl1   == QSub(n1, One)
            gl2   == QSub(n2, One)
            s_max == QMax(s1, s2)
            s_min == QMin(s1, s2)
            divisor == IF tipo_teste = "bilateral" THEN s_min ELSE s2
        IN  IF IsZero(QSq(divisor)) THEN ZeroDivision
            ELSE
            LET f_calc == IF tipo_teste = "bilateral"
                          THEN QDiv(QSq(s_max), QSq(s_min))
                          ELSE QDiv(QSq(s1), QSq(s2))
                f_crit == IF tipo_teste = "bilateral"
                          THEN (IF QLt(s2, s1)
                                THEN Ppf("f", OneMinusHalf(alpha), gl1, gl2)
                                ELSE Ppf("f", OneMinusHalf(alpha), gl2, gl1))
                          ELSE Ppf("f", OneMinus(alpha), gl1, gl2)
            IN  Returned(<<
                    Entry("Tipo de Teste", Str(tipo_teste)),
                    Entry("Graus de Liberdade 1 (gl1)", PyInt(gl1)),
                    Entry("Graus de Liberdade 2 (gl2)", PyInt(gl2)),
                    Entry("F_calculado", f_calc),
                    Entry("F_critico", f_crit),
                    Entry("Nivel de Significancia (alpha)", alpha) >>)

----------------------------------------------------------------------------
(* Bounds and the inputs the model enumerates                              *)

(* sample sizes 0..MaxN are tried *)
MaxN == 3

(* raw samples of length 0..MaxLen are tried *)
MaxLen == 2

SampleValues == {0, 1, 3}

RECURSIVE SeqsUpTo(_)
SeqsUpTo(len) ==
    IF len = 0 THEN {<<>>}
    ELSE LET shorter == SeqsUpTo(len - 1)
         IN  shorter \cup {Append(xs, x) : xs \in {ys \in shorter : Len(ys) = len - 1},
                                            x \in SampleValues}

Samples == {Sample(xs) : xs \in SeqsUpTo(MaxLen)}

SampleArgs == {NoSample} \cup Samples

Sizes == {Num(i) : i \in 0..MaxN}

SizeArgs == {None} \cup Sizes

SizeArgs2 == {None, Num(1), Num(2)}

AlphaValues == {Num(0), Q(1, 20), One}

AlphaArgs == {None} \cup AlphaValues

MeanArgs == {None, Num(1)}

MeanArgs2 == {None, Num(0)}

SpreadValues == {Num(-1), Num(0), Num(2)}

SpreadArgs == {None} \cup SpreadValues

SpreadArgs2 == {None, Num(0), Num(1)}

NullVarianceArgs == {None, Num(-1), Num(0), Num(2)}

ProportionArgs == {None, Num(-1), Num(0), Q(1, 2), One, Num(2)}

ProportionArgs2 == {None, Num(0), Q(1, 2), Num(2)}

SuccessArgs == {None, Num(-1), Num(0), Num(1), Num(3)}

SuccessArgs2 == {None, Num(1)}

(* console answers *)
Toks(values) == {BadTok} \cup {NumTok(v) : v \in values \ {None}}

SizeToks == Toks(Sizes \cup {Q(3, 2)})

TipoAnswers == {"bilateral", "unilateral_dir", "unilateral_esq", " Bilateral ", "two-sided"}

Call(impl, proc, args) == [impl |-> impl, proc |-> proc, args |-> args]

----------------------------------------------------------------------------
(* State: the last call made and its outcome                               *)

(* calculadora_testes_hipoteses.py, menu_principal: the dictionary testes, *)
(* option -> (family named by the label, function)                         *)
testes ==
    [escolha \in {"1", "2", "3", "4", "5", "6", "7", "8", "9", "10"} |->
       CASE escolha = "1" -> [nome |-> "t mean", funcao |-> "t_media_var_desconhecida"]
         [] escolha = "2" -> [nome |-> "z mean", funcao |-> "z_media_var_conhecida"]
         [] escolha = "3" -> [nome |-> "chi2 variance", funcao |-> "chi2_variancia"]
         [] escolha = "4" -> [nome |-> "z proportion", funcao |-> "z_proporcao"]
         [] escolha = "5" -> [nome |-> "t pooled", funcao |-> "t_dif_medias_var_iguais"]
         [] escolha = "6" -> [nome |-> "t welch", funcao |-> "t_welch_dif_medias"]
         [] escolha = "7" -> [nome |-> "t paired", funcao |-> "t_pareado"]
         [] escolha = "8" -> [nome |-> "z two means", funcao |-> "z_dif_medias_var_conhecidas"]
         [] escolha = "9" -> [nome |-> "z two proportions", funcao |-> "z_dif_proporcoes"]
         [] escolha = "10" -> [nome |-> "f variances", funcao |-> "f_dif_variancias"]]

(* hypothesis_calc.py, get_test_type: the family printed under each option *)
get_test_type ==
    [choice \in {"1", "2", "3", "4", "5", "6", "7", "8", "9"} |->
       CASE choice = "1" -> "t mean"
         [] choice = "2" -> "t pooled"
         [] choice = "3" -> "t welch"
         [] choice = "4" -> "t paired"
         [] choice = "5" -> "z mean"
         [] choice = "6" -> "z proportion"
         [] choice = "7" -> "chi2 variance"
         [] choice = "8" -> "z two proportions"
         [] choice = "9" -> "f variances"]

(* hypothesis_calc.py, run_interactive_calculator: the procedure the       *)
(* branch of test_choice calls; any other answer is an invalid option      *)
run_interactive_calculator(test_choice) ==
    CASE test_choice = "1" -> "test_mean_unknown_variance"
      [] test_choice = "2" -> "test_diff_means_equal_variances"
      [] test_choice = "3" -> "test_diff_means_welch"
      [] test_choice = "4" -> "test_paired_samples"
      [] test_choice = "5" -> "test_mean_known_variance"
      [] test_choice = "6" -> "test_proportion"
      [] test_choice = "7" -> "test_variance"
      [] test_choice = "8" -> "test_diff_proportions"
      [] test_choice = "9" -> "test_diff_variances"
      [] OTHER -> "invalid option"

NoCall == Call("", "none", [alpha |-> None])

NoOutcome == [kind |-> "none", exc |-> "", err |-> "", res |-> NoResult]

(* the console of an interactive run: nothing typed, nothing printed *)
FreshConsole ==
    /\ option = ""
    /\ printed = "none"
    /\ last = "none"
    /\ repetir = "unasked"

(* a procedure called directly, as a library function, outside the menus *)
Init ==
    /\ call = NoCall
    /\ outcome = NoOutcome
    /\ pc = "direct"
    /\ prog = ""
    /\ FreshConsole

(* a procedure keeps no state between calls: each behaviour is one call *)
Idle == call.proc = "none"

(* the procedure proc of impl is the one being called: directly, or by    *)
(* the menu loop of impl on the option typed                               *)
Selected(impl, proc) ==
    \/ pc = "direct"
    \/ /\ pc = "inputs"
       /\ prog = impl
       /\ IF impl = "hc" THEN run_interactive_calculator(option) = proc
                         ELSE option \in DOMAIN testes /\ testes[option].funcao = proc

(* the call of proc: the loop, when there is one, goes on after the call  *)
Invoke(impl, proc) ==
    /\ Idle
    /\ Selected(impl, proc)
    /\ pc' = IF pc = "direct" THEN "direct" ELSE "called"
    /\ UNCHANGED <<prog, option, printed, last, repetir>>

(* when a sample is passed, the summary arguments are all absent or all present *)
AllOrNone(vs) == (\A i \in 1..Len(vs) : IsNone(vs[i])) \/ (\A i \in 1..Len(vs) : ~IsNone(vs[i]))

(* the worked examples of the specification: x_bar = 52, mu_0 = 50,       *)
(* s = 10, n = 25 for the one-sample t test; x_bar_1 = 10, x_bar_2 = 8,    *)
(* s1^2 = 4, n_1 = 10, s2^2 = 9, n_2 = 15 for the Welch test; alpha = 0.05 *)
ExampleMean == [x_bar |-> Num(52), s |-> Num(10), n |-> Num(25), mu_0 |-> Num(50),
                alpha |-> Q(1, 20), sample |-> NoSample]

ExampleMedia == [x_barra |-> NumTok(Num(52)), mu_0 |-> NumTok(Num(50)),
                 s |-> NumTok(Num(10)), n |-> NumTok(Num(25)),
                 alpha |-> NumTok(Q(1, 20)), tipo |-> "bilateral"]

ExampleWelch == [x_bar_1 |-> Num(10), x_bar_2 |-> Num(8), s_sq_1 |-> Num(4),
                 s_sq_2 |-> Num(9), n_1 |-> Num(10), n_2 |-> Num(15),
                 alpha |-> Q(1, 20), sample_1 |-> NoSample, sample_2 |-> NoSample]

ExampleWelchMedias == [x1 |-> NumTok(Num(10)), x2 |-> NumTok(Num(8)),
                       s1 |-> NumTok(Num(2)), s2 |-> NumTok(Num(3)),
                       n1 |-> NumTok(Num(10)), n2 |-> NumTok(Num(15)),
                       alpha |-> NumTok(Q(1, 20)), tipo |-> "bilateral"]

CallTestMeanUnknownVariance ==
    /\ Invoke("hc", "test_mean_unknown_variance")
    /\ \E a \in {ExampleMean} \cup
                 {r \in [x_bar : MeanArgs, s : SpreadArgs, n : SizeArgs, mu_0 : MeanArgs2,
                         alpha : AlphaArgs, sample : SampleArgs] :
                     r.sample.given => /\ AllOrNone(<<r.x_bar, r.s, r.n>>)
                                       /\ r.s \in {None, Num(2)}
                                       /\ r.n \in {None, Num(1)}} :
        /\ call' = Call("hc", "test_mean_unknown_variance", a)
        /\ outcome' = test_mean_unknown_variance(a.x_bar, a.s, a.n, a.mu_0, a.alpha, a.sample)

CallTestPairedSamples ==
    /\ Invoke("hc", "test_paired_samples")
    /\ \E sample_diff \in SampleArgs, d_bar \in MeanArgs, s_d \in SpreadArgs, n \in SizeArgs,
       delta \in MeanArgs2, alpha \in AlphaArgs :
        /\ sample_diff.given => AllOrNone(<<d_bar, s_d, n>>) /\ s_d \in {None, Num(2)} /\ n \in {None, Num(1)}
        /\ call' = Call("hc", "test_paired_samples",
                        [d_bar |-> d_bar, s_d |-> s_d, n |-> n, delta |-> delta,
                         alpha |-> alpha, sample_diff |-> sample_diff])
        /\ outcome' = test_paired_samples(d_bar, s_d, n, delta, alpha, sample_diff)

CallTestMeanKnownVariance ==
    /\ Invoke("hc", "test_mean_known_variance")
    /\ \E sample \in SampleArgs, x_bar \in MeanArgs, sigma \in SpreadArgs, n \in SizeArgs,
       mu_0 \in MeanArgs2, alpha \in AlphaArgs :
        /\ sample.given => AllOrNone(<<x_bar, n>>) /\ n \in {None, Num(1)}
        /\ call' = Call("hc", "test_mean_known_variance",
                        [x_bar |-> x_bar, sigma |-> sigma, n |-> n, mu_0 |-> mu_0,
                         alpha |-> alpha, sample |-> sample])
        /\ outcome' = test_mean_known_variance(x_bar, sigma, n, mu_0, alpha, sample)

CallTestVariance ==
    /\ Invoke("hc", "test_variance")
    /\ \E sample \in SampleArgs, s_sq \in SpreadArgs, sigma_0_sq \in NullVarianceArgs,
       n \in SizeArgs, alpha \in AlphaArgs :
        /\ sample.given => AllOrNone(<<s_sq, n>>) /\ s_sq \in {None, Num(2)} /\ n \in {None, Num(1)}
        /\ call' = Call("hc", "test_variance",
                        [s_sq |-> s_sq, sigma_0_sq |-> sigma_0_sq, n |-> n,
                         alpha |-> alpha, sample |-> sample])
        /\ outcome' = test_variance(s_sq, sigma_0_sq, n, alpha, sample)

CallTestProportion ==
    /\ Invoke("hc", "test_proportion")
    /\ \E p_hat \in ProportionArgs, p_0 \in ProportionArgs, n \in SizeArgs,
       alpha \in AlphaArgs, successes \in SuccessArgs :
        /\ call' = Call("hc", "test_proportion",
                        [p_hat |-> p_hat, p_0 |-> p_0, n |-> n, alpha |-> alpha,
                         successes |-> successes])
        /\ outcome' = test_proportion(p_hat, p_0, n, alpha, successes)

(* the summary arguments tried together with raw samples in a two-sample call *)
WithSamples(sample_1, sample_2, summary, n_1, n_2) ==
    (sample_1.given \/ sample_2.given) =>
        /\ AllOrNone(summary \o <<n_1, n_2>>)
        /\ \A i \in 1..Len(summary) : summary[i] \in {None, Num(1), Num(0)}
        /\ n_1 \in {None, Num(2)}
        /\ n_2 \in {None, Num(1), Num(2)}

CallTestDiffMeansEqualVariances ==
    /\ Invoke("hc", "test_diff_means_equal_variances")
    /\ \E sample_1 \in SampleArgs, sample_2 \in SampleArgs, x_bar_1 \in MeanArgs,
       x_bar_2 \in MeanArgs2, s_sq_1 \in SpreadArgs, s_sq_2 \in SpreadArgs2,
       n_1 \in SizeArgs, n_2 \in SizeArgs2, alpha \in AlphaArgs :
        /\ WithSamples(sample_1, sample_2, <<x_bar_1, x_bar_2, s_sq_1, s_sq_2>>, n_1, n_2)
        /\ call' = Call("hc", "test_diff_means_equal_variances",
                        [x_bar_1 |-> x_bar_1, x_bar_2 |-> x_bar_2, s_sq_1 |-> s_sq_1,
                         s_sq_2 |-> s_sq_2, n_1 |-> n_1, n_2 |-> n_2, alpha |-> alpha,
                         sample_1 |-> sample_1, sample_2 |-> sample_2])
        /\ outcome' = test_diff_means_equal_variances(x_bar_1, x_bar_2, s_sq_1, s_sq_2,
                                                      n_1, n_2, alpha, sample_1, sample_2)

CallTestDiffMeansWelch ==
    /\ Invoke("hc", "test_diff_means_welch")
    /\ \E a \in {ExampleWelch} \cup
                 {r \in [x_bar_1 : MeanArgs, x_bar_2 : MeanArgs2, s_sq_1 : SpreadArgs,
                         s_sq_2 : SpreadArgs2, n_1 : SizeArgs, n_2 : SizeArgs2,
                         alpha : AlphaArgs, sample_1 : SampleArgs, sample_2 : SampleArgs] :
                     WithSamples(r.sample_1, r.sample_2,
                                 <<r.x_bar_1, r.x_bar_2, r.s_sq_1, r.s_sq_2>>, r.n_1, r.n_2)} :
        /\ call' = Call("hc", "test_diff_means_welch", a)
        /\ outcome' = test_diff_means_welch(a.x_bar_1, a.x_bar_2, a.s_sq_1, a.s_sq_2,
                                            a.n_1, a.n_2, a.alpha, a.sample_1, a.sample_2)

CallTestDiffVariances ==
    /\ Invoke("hc", "test_diff_variances")
    /\ \E sample_1 \in SampleArgs, sample_2 \in SampleArgs, s_sq_1 \in SpreadArgs,
       s_sq_2 \in SpreadArgs2, n_1 \in SizeArgs, n_2 \in SizeArgs2, alpha \in AlphaArgs :
        /\ WithSamples(sample_1, sample_2, <<s_sq_1, s_sq_2>>, n_1, n_2)
        /\ call' = Call("hc", "test_diff_variances",
                        [s_sq_1 |-> s_sq_1, s_sq_2 |-> s_sq_2, n_1 |-> n_1, n_2 |-> n_2,
                         alpha |-> alpha, sample_1 |-> sample_1, sample_2 |-> sample_2])
        /\ outcome' = test_diff_variances(s_sq_1, s_sq_2, n_1, n_2, alpha,
                                          sample_1, sample_2)

CallTestDiffProportions ==
    /\ Invoke("hc", "test_diff_proportions")
    /\ \E p_hat_1 \in ProportionArgs, p_hat_2 \in ProportionArgs2, n_1 \in SizeArgs,
          n_2 \in SizeArgs2 \cup {Num(0)}, alpha \in AlphaArgs,
          successes_1 \in SuccessArgs, successes_2 \in SuccessArgs2 :
        /\ (~IsNone(successes_1) \/ ~IsNone(successes_2)) =>
                AllOrNone(<<p_hat_1, p_hat_2>>) /\ p_hat_1 \in {None, Q(1, 2)}
                                                /\ p_hat_2 \in {None, Q(1, 2)}
        /\ call' = Call("hc", "test_diff_proportions",
                        [p_hat_1 |-> p_hat_1, p_hat_2 |-> p_hat_2, n_1 |-> n_1,
                         n_2 |-> n_2, alpha |-> alpha, successes_1 |-> successes_1,
                         successes_2 |-> successes_2])
        /\ outcome' = test_diff_proportions(p_hat_1, p_hat_2, n_1, n_2, alpha,
                                            successes_1, successes_2)

----------------------------------------------------------------------------
(* calls of the console procedures of calculadora_testes_hipoteses.py      *)

CallTMediaVarDesconhecida ==
    /\ Invoke("cth", "t_media_var_desconhecida")
    /\ \E a \in {ExampleMedia} \cup
                 [x_barra : Toks(MeanArgs), mu_0 : Toks(MeanArgs2), s : Toks(SpreadArgs),
                  n : SizeToks, alpha : Toks(AlphaArgs), tipo : TipoAnswers] :
        /\ call' = Call("cth", "t_media_var_desconhecida", a)
        /\ outcome' = t_media_var_desconhecida(a.x_barra, a.mu_0, a.s, a.n, a.alpha, a.tipo)

CallZMediaVarConhecida ==
    /\ Invoke("cth", "z_media_var_conhecida")
    /\ \E x_barra \in Toks(MeanArgs), mu_0 \in Toks(MeanArgs2), sigma \in Toks(SpreadArgs),
       n \in SizeToks, alpha \in Toks(AlphaArgs), tipo \in TipoAnswers :
        /\ call' = Call("cth", "z_media_var_conhecida",
                        [x_barra |-> x_barra, mu_0 |-> mu_0, s |-> sigma, n |-> n,
                         alpha |-> alpha, tipo |-> tipo])
        /\ outcome' = z_media_var_conhecida(x_barra, mu_0, sigma, n, alpha, tipo)

CallChi2Variancia ==
    /\ Invoke("cth", "chi2_variancia")
    /\ \E s \in Toks(SpreadArgs), sigma2_0 \in Toks(NullVarianceArgs), n \in SizeToks,
       alpha \in Toks(AlphaArgs), tipo \in TipoAnswers :
        /\ call' = Call("cth", "chi2_variancia",
                        [s |-> s, sigma2_0 |-> sigma2_0, n |-> n, alpha |-> alpha,
                         tipo |-> tipo])
        /\ outcome' = chi2_variancia(s, sigma2_0, n, alpha, tipo)

CallZProporcao ==
    /\ Invoke("cth", "z_proporcao")
    /\ \E p_hat \in Toks(ProportionArgs), p_0 \in Toks(ProportionArgs), n \in SizeToks,
       alpha \in Toks(AlphaArgs), tipo \in TipoAnswers :
        /\ call' = Call("cth", "z_proporcao",
                        [p_hat |-> p_hat, p_0 |-> p_0, n |-> n, alpha |-> alpha,
                         tipo |-> tipo])
        /\ outcome' = z_proporcao(p_hat, p_0, n, alpha, tipo)

CallTDifMediasVarIguais ==
    /\ Invoke("cth", "t_dif_medias_var_iguais")
    /\ \E x1 \in Toks(MeanArgs), x2 \in {NumTok(Num(0))}, s1 \in Toks(SpreadArgs),
       s2 \in Toks(SpreadValues), n1 \in SizeToks, n2 \in Toks(SizeArgs2),
       alpha \in Toks(AlphaArgs), tipo \in TipoAnswers :
        /\ call' = Call("cth", "t_dif_medias_var_iguais",
                        [x1 |-> x1, x2 |-> x2, s1 |-> s1, s2 |-> s2, n1 |-> n1,
                         n2 |-> n2, alpha |-> alpha, tipo |-> tipo])
        /\ outcome' = t_dif_medias_var_iguais(x1, x2, s1, s2, n1, n2, alpha, tipo)

CallTWelchDifMedias ==
    /\ Invoke("cth", "t_welch_dif_medias")
    /\ \E a \in {ExampleWelchMedias} \cup
                 [x1 : Toks(MeanArgs), x2 : {NumTok(Num(0))}, s1 : Toks(SpreadArgs),
                  s2 : Toks(SpreadValues), n1 : SizeToks, n2 : Toks(SizeArgs2),
                  alpha : Toks(AlphaArgs), tipo : TipoAnswers] :
        /\ call' = Call("cth", "t_welch_dif_medias", a)
        /\ outcome' = t_welch_dif_medias(a.x1, a.x2, a.s1, a.s2, a.n1, a.n2, a.alpha, a.tipo)

CallTPareado ==
    /\ Invoke("cth", "t_pareado")
    /\ \E d_barra \in Toks(MeanArgs), delta \in Toks(MeanArgs) \cup {EmptyTok},
       sd \in Toks(SpreadArgs), n \in SizeToks, alpha \in Toks(AlphaArgs),
       tipo \in TipoAnswers :
        /\ call' = Call("cth", "t_pareado",
                        [d_barra |-> d_barra, delta |-> delta, s |-> sd, n |-> n,
                         alpha |-> alpha, tipo |-> tipo])
        /\ outcome' = t_pareado(d_barra, delta, sd, n, alpha, tipo)

CallZDifMediasVarConhecidas ==
    /\ Invoke("cth", "z_dif_medias_var_conhecidas")
    /\ \E x1 \in Toks(MeanArgs), x2 \in {NumTok(Num(0))}, sigma1 \in Toks(SpreadArgs),
       sigma2 \in Toks(SpreadValues), n1 \in SizeToks, n2 \in Toks(SizeArgs2),
       alpha \in Toks(AlphaArgs), tipo \in TipoAnswers :
        /\ call' = Call("cth", "z_dif_medias_var_conhecidas",
                        [x1 |-> x1, x2 |-> x2, s1 |-> sigma1, s2 |-> sigma2, n1 |-> n1,
                         n2 |-> n2, alpha |-> alpha, tipo |-> tipo])
        /\ outcome' = z_dif_medias_var_conhecidas(x1, x2, sigma1, sigma2, n1, n2,
                                                  alpha, tipo)

CallZDifProporcoes ==
    /\ Invoke("cth", "z_dif_proporcoes")
    /\ \E p1 \in Toks(ProportionArgs), p2 \in Toks(ProportionArgs2), n1 \in SizeToks,
       n2 \in Toks(SizeArgs2), alpha \in Toks(AlphaArgs), tipo \in TipoAnswers :
        /\ call' = Call("cth", "z_dif_proporcoes",
                        [p1 |-> p1, p2 |-> p2, n1 |-> n1, n2 |-> n2, alpha |-> alpha,
                         tipo |-> tipo])
        /\ outcome' = z_dif_proporcoes(p1, p2, n1, n2, alpha, tipo)

CallFDifVariancias ==
    /\ Invoke("cth", "f_dif_variancias")
    /\ \E s1 \in Toks(SpreadArgs), s2 \in Toks(SpreadValues \cup {Num(3)}), n1 \in SizeToks,
       n2 \in Toks(SizeArgs2), alpha \in Toks(AlphaArgs), tipo \in TipoAnswers :
        /\ call' = Call("cth", "f_dif_variancias",
                        [s1 |-> s1, s2 |-> s2, n1 |-> n1, n2 |-> n2, alpha |-> alpha,
                         tipo |-> tipo])
        /\ outcome' = f_dif_variancias(s1, s2, n1, n2, alpha, tipo)

Next ==
    \/ CallTestMeanUnknownVariance
    \/ CallTestDiffMeansEqualVariances
    \/ CallTestDiffMeansWelch
    \/ CallTestPairedSamples
    \/ CallTestMeanKnownVariance
    \/ CallTestProportion
    \/ CallTestVariance
    \/ CallTestDiffProportions
    \/ CallTestDiffVariances
    \/ CallTMediaVarDesconhecida
    \/ CallZMediaVarConhecida
    \/ CallChi2Variancia
    \/ CallZProporcao
    \/ CallTDifMediasVarIguais
    \/ CallTWelchDifMedias
    \/ CallTPareado
    \/ CallZDifMediasVarConhecidas
    \/ CallZDifProporcoes
    \/ CallFDifVariancias

Spec == Init /\ [][Next]_vars

----------------------------------------------------------------------------
(* The interactive loops: run_interactive_calculator of hypothesis_calc.py *)
(* and menu_principal of calculadora_testes_hipoteses.py.  pc is the       *)
(* position of the loop ("menu", "inputs", "called", "repeat", and the     *)
(* final "ended" and "crashed"), option the menu answer after strip(),     *)
(* printed what the current turn of the loop has printed, last the fate    *)
(* of the last calculation, repetir the answer typed at the repeat prompt. *)
(* The call of a turn is forgotten once the loop has printed its result    *)
(* or handled its error.                                                   *)

MenuAnswers == {"0", "1", "2", "3", "4", "5", "6", "7", "8", "9", "10", "11", " 6 ", "x", ""}

RepeatAnswers == {"S", "s", " s ", "N", "n", "", "sim"}

(* str.strip(), str.upper() and str.lower() on the answers above *)
Strip(s) ==
    CASE s = " 6 " -> "6"
      [] s = " s " -> "s"
      [] OTHER     -> s

Upper(s) ==
    CASE s = "s"   -> "S"
      [] s = "n"   -> "N"
      [] s = "sim" -> "SIM"
      [] s = "x"   -> "X"
      [] OTHER     -> s

Lower(s) ==
    CASE s = "S"   -> "s"
      [] s = "N"   -> "n"
      [] OTHER     -> s

InitMenu ==
    /\ call = NoCall
    /\ outcome = NoOutcome
    /\ pc = "menu"
    /\ prog \in {"hc", "cth"}
    /\ FreshConsole

(* the turn is over: the next one starts from a fresh call *)
Forget ==
    /\ call' = NoCall
    /\ outcome' = NoOutcome

(* where the loop of hypothesis_calc.py resumes after an except clause:    *)
(* the clause is the last statement of the loop body                       *)
AfterExceptAsksRepeat == "repeat"

AfterExcept == "menu"

(* where the loop of calculadora_testes_hipoteses.py goes after a          *)
(* procedure has returned None: on to the repeat prompt                    *)
AfterNone == "repeat"

(* hypothesis_calc.py: test_choice = get_test_type(); the final else of    *)
(* the branches prints "invalid option" and continues                      *)
GetTestType ==
    /\ prog = "hc"
    /\ pc = "menu"
    /\ \E typed \in MenuAnswers :
        LET test_choice == Strip(typed)
        IN  /\ option' = test_choice
            /\ IF run_interactive_calculator(test_choice) = "invalid option"
               THEN pc' = "menu" /\ printed' = "invalid"
               ELSE pc' = "inputs" /\ printed' = "none"
    /\ repetir' = "unasked"
    /\ UNCHANGED <<call, outcome, prog, last>>

(* hypothesis_calc.py: float(input()), int(input()) or parse_sample_input  *)
(* raises ValueError on an answer that is not a number, before the call    *)
ReadInputFails ==
    /\ prog = "hc"
    /\ pc = "inputs"
    /\ Idle
    /\ outcome' = Raise("ValueError", "could not convert string to float")
    /\ pc' = "called"
    /\ UNCHANGED <<call, prog, option, printed, last, repetir>>

(* hypothesis_calc.py: the branch prints the mapping the call returned *)
PrintResults ==
    /\ prog = "hc"
    /\ pc = "called"
    /\ outcome.kind = "result"
    /\ printed' = "result"
    /\ last' = "success"
    /\ pc' = "repeat"
    /\ Forget
    /\ UNCHANGED <<prog, option, repetir>>

(* hypothesis_calc.py: except ValueError as e *)
ExceptValueError ==
    /\ prog = "hc"
    /\ pc = "called"
    /\ outcome.kind = "raised"
    /\ outcome.exc = "ValueError"
    /\ printed' = "error"
    /\ last' = "failed"
    /\ pc' = AfterExcept
    /\ Forget
    /\ UNCHANGED <<prog, option, repetir>>

(* hypothesis_calc.py: except Exception as e *)
ExceptException ==
    /\ prog = "hc"
    /\ pc = "called"
    /\ outcome.kind = "raised"
    /\ outcome.exc # "ValueError"
    /\ printed' = "error"
    /\ last' = "failed"
    /\ pc' = AfterExcept
    /\ Forget
    /\ UNCHANGED <<prog, option, repetir>>

(* hypothesis_calc.py: repeat = input(...).strip().upper(); any answer     *)
(* but "S" breaks the loop                                                 *)
AskRepeat ==
    /\ prog = "hc"
    /\ pc = "repeat"
    /\ \E typed \in RepeatAnswers :
        LET repeat == Upper(Strip(typed))
        IN  /\ repetir' = typed
            /\ pc' = IF repeat # "S" THEN "ended" ELSE "menu"
    /\ UNCHANGED <<call, outcome, prog, option, printed, last>>

(* calculadora_testes_hipoteses.py: escolha = input(...).strip(); "0"      *)
(* breaks the loop, an answer outside testes continues it                  *)
MenuPrincipal ==
    /\ prog = "cth"
    /\ pc = "menu"
    /\ \E typed \in MenuAnswers :
        LET chosen == Strip(typed)
        IN  /\ option' = chosen
            /\ IF chosen = "0" THEN pc' = "ended" /\ printed' = "none"
               ELSE IF chosen \notin DOMAIN testes
                    THEN pc' = "menu" /\ printed' = "invalid"
                    ELSE pc' = "inputs" /\ printed' = "none"
    /\ repetir' = "unasked"
    /\ UNCHANGED <<call, outcome, prog, last>>

(* calculadora_testes_hipoteses.py: if resultado: print(formatar_resultado) *)
FormatarResultado ==
    /\ prog = "cth"
    /\ pc = "called"
    /\ outcome.kind = "result"
    /\ outcome.res # NoResult
    /\ printed' = "result"
    /\ last' = "success"
    /\ pc' = "repeat"
    /\ Forget
    /\ UNCHANGED <<prog, option, repetir>>

(* calculadora_testes_hipoteses.py: the procedure caught its ValueError,   *)
(* printed the error and returned None; nothing is printed as a result     *)
ResultadoNone ==
    /\ prog = "cth"
    /\ pc = "called"
    /\ outcome.kind = "caught"
    /\ printed' = "error"
    /\ last' = "failed"
    /\ pc' = AfterNone
    /\ Forget
    /\ UNCHANGED <<prog, option, repetir>>

(* calculadora_testes_hipoteses.py: an exception the procedure does not    *)
(* catch passes through funcao_teste() and menu_principal, which has no    *)
(* handler: the program ends with a traceback                              *)
Uncaught ==
    /\ prog = "cth"
    /\ pc = "called"
    /\ outcome.kind = "raised"
    /\ printed' = "traceback"
    /\ last' = "failed"
    /\ pc' = "crashed"
    /\ UNCHANGED <<call, outcome, prog, option, repetir>>

(* calculadora_testes_hipoteses.py: repetir = input(...).lower().strip();   *)
(* any answer but "s" breaks the loop                                      *)
PerguntaRepetir ==
    /\ prog = "cth"
    /\ pc = "repeat"
    /\ \E typed \in RepeatAnswers :
        LET answer == Strip(Lower(typed))
        IN  /\ repetir' = typed
            /\ pc' = IF answer # "s" THEN "ended" ELSE "menu"
    /\ UNCHANGED <<call, outcome, prog, option, printed, last>>

NextMenu ==
    \/ Next
    \/ GetTestType
    \/ ReadInputFails
    \/ PrintResults
    \/ ExceptValueError
    \/ ExceptException
    \/ AskRepeat
    \/ MenuPrincipal
    \/ FormatarResultado
    \/ ResultadoNone
    \/ Uncaught
    \/ PerguntaRepetir

SpecMenu == InitMenu /\ [][NextMenu]_vars

----------------------------------------------------------------------------
(* Vocabulary of the properties                                            *)

Done == call.proc # "none"

IsHC == call.impl = "hc"

IsCTH == call.impl = "cth"

GotResult == outcome.kind = "result"

(* the outcome the procedure named in c gives on the arguments in c *)
Run(c) ==
    LET a == c.args
    IN  CASE c.proc = "test_mean_unknown_variance" ->
               test_mean_unknown_variance(a.x_bar, a.s, a.n, a.mu_0, a.alpha, a.sample)
          [] c.proc = "test_diff_means_equal_variances" ->
               test_diff_means_equal_variances(a.x_bar_1, a.x_bar_2, a.s_sq_1, a.s_sq_2,
                                               a.n_1, a.n_2, a.alpha, a.sample_1, a.sample_2)
          [] c.proc = "test_diff_means_welch" ->
               test_diff_means_welch(a.x_bar_1, a.x_bar_2, a.s_sq_1, a.s_sq_2,
                                     a.n_1, a.n_2, a.alpha, a.sample_1, a.sample_2)
          [] c.proc = "test_paired_samples" ->
               test_paired_samples(a.d_bar, a.s_d, a.n, a.delta, a.alpha, a.sample_diff)
          [] c.proc = "test_mean_known_variance" ->
               test_mean_known_variance(a.x_bar, a.sigma, a.n, a.mu_0, a.alpha, a.sample)
          [] c.proc = "test_proportion" ->
               test_proportion(a.p_hat, a.p_0, a.n, a.alpha, a.successes)
          [] c.proc = "test_variance" ->
               test_variance(a.s_sq, a.sigma_0_sq, a.n, a.alpha, a.sample)
          [] c.proc = "test_diff_proportions" ->
               test_diff_proportions(a.p_hat_1, a.p_hat_2, a.n_1, a.n_2, a.alpha,
                                     a.successes_1, a.successes_2)
          [] c.proc = "test_diff_variances" ->
               test_diff_variances(a.s_sq_1, a.s_sq_2, a.n_1, a.n_2, a.alpha,
                                   a.sample_1, a.sample_2)
          [] c.proc = "t_media_var_desconhecida" ->
               t_media_var_desconhecida(a.x_barra, a.mu_0, a.s, a.n, a.alpha, a.tipo)
          [] c.proc = "z_media_var_conhecida" ->
               z_media_var_conhecida(a.x_barra, a.mu_0, a.s, a.n, a.alpha, a.tipo)
          [] c.proc = "chi2_variancia" ->
               chi2_variancia(a.s, a.sigma2_0, a.n, a.alpha, a.tipo)
          [] c.proc = "z_proporcao" ->
               z_proporcao(a.p_hat, a.p_0, a.n, a.alpha, a.tipo)
          [] c.proc = "t_dif_medias_var_iguais" ->
               t_dif_medias_var_iguais(a.x1, a.x2, a.s1, a.s2, a.n1, a.n2, a.alpha, a.tipo)
          [] c.proc = "t_welch_dif_medias" ->
               t_welch_dif_medias(a.x1, a.x2, a.s1, a.s2, a.n1, a.n2, a.alpha, a.tipo)
          [] c.proc = "t_pareado" ->
               t_pareado(a.d_barra, a.delta, a.s, a.n, a.alpha, a.tipo)
          [] c.proc = "z_dif_medias_var_conhecidas" ->
               z_dif_medias_var_conhecidas(a.x1, a.x2, a.s1, a.s2, a.n1, a.n2,
                                           a.alpha, a.tipo)
          [] c.proc = "z_dif_proporcoes" ->
               z_dif_proporcoes(a.p1, a.p2, a.n1, a.n2, a.alpha, a.tipo)
          [] OTHER ->
               f_dif_variancias(a.s1, a.s2, a.n1, a.n2, a.alpha, a.tipo)

(* the call c with one argument replaced *)
With(c, field, v) == [c EXCEPT !.args = [c.args EXCEPT ![field] = v]]

HasKey(res, key) == \E i \in 1..Len(res) : res[i].key = key

Lookup(res, key) == res[CHOOSE i \in 1..Len(res) : res[i].key = key].val

HasArg(name) == name \in DOMAIN call.args

OneSampleHC == {"test_mean_unknown_variance", "test_paired_samples",
                "test_mean_known_variance", "test_variance"}

TwoSampleHC == {"test_diff_means_equal_variances", "test_diff_means_welch",
                "test_diff_variances"}

ProportionHC == {"test_proportion", "test_diff_proportions"}

TwoSampleCTH == {"t_dif_medias_var_iguais", "t_welch_dif_medias",
                 "z_dif_medias_var_conhecidas", "z_dif_proporcoes", "f_dif_variancias"}

(* the raw sample of a one-sample call of hypothesis_calc.py *)
SampleArg == IF call.proc = "test_paired_samples" THEN call.args.sample_diff
             ELSE call.args.sample

(* the call's significance level, when it is a number *)
AlphaArg == IF IsHC THEN call.args.alpha ELSE call.args.alpha.v

AlphaGiven == Done /\ IsQ(AlphaArg)

AlphaOutOfRange == AlphaGiven /\ (QLe(AlphaArg, Num(0)) \/ QLe(One, AlphaArg))

ValidAlpha == IF IsHC THEN Q(1, 20) ELSE NumTok(Q(1, 20))

IsAlphaError ==
    \/ outcome = Raise("ValueError", "Erro: alpha deve estar entre 0 e 1.")
    \/ outcome = Caught("ValueError", "Nivel de significancia deve estar entre 0 e 1")

----------------------------------------------------------------------------
(* C1: raw-sample mode and summary mode agree                              *)

(* the summary-mode call that passes what calculate_sample_stats yields for *)
(* the sample(s) of the raw-sample call c, all other arguments being equal  *)
SummaryCounterpart(c) ==
    LET a == c.args
    IN  CASE c.proc = "test_mean_unknown_variance" ->
               LET st == calculate_sample_stats(a.sample.xs)
               IN  [c EXCEPT !.args = [a EXCEPT !.x_bar = st.mean, !.s = st.std_dev,
                                                !.n = st.n, !.sample = NoSample]]
          [] c.proc = "test_paired_samples" ->
               LET st == calculate_sample_stats(a.sample_diff.xs)
               IN  [c EXCEPT !.args = [a EXCEPT !.d_bar = st.mean, !.s_d = st.std_dev,
                                                !.n = st.n, !.sample_diff = NoSample]]
          [] c.proc = "test_mean_known_variance" ->
               LET st == calculate_sample_stats(a.sample.xs)
               IN  [c EXCEPT !.args = [a EXCEPT !.x_bar = st.mean, !.n = st.n,
                                                !.sample = NoSample]]
          [] c.proc = "test_variance" ->
               LET st == calculate_sample_stats(a.sample.xs)
               IN  [c EXCEPT !.args = [a EXCEPT !.s_sq = st.variance, !.n = st.n,
                                                !.sample = NoSample]]
          [] c.proc = "test_diff_variances" ->
               LET st1 == calculate_sample_stats(a.sample_1.xs)
                   st2 == calculate_sample_stats(a.sample_2.xs)
               IN  [c EXCEPT !.args = [a EXCEPT !.s_sq_1 = st1.variance,
                                                !.s_sq_2 = st2.variance,
                                                !.n_1 = st1.n, !.n_2 = st2.n,
                                                !.sample_1 = NoSample,
                                                !.sample_2 = NoSample]]
          [] OTHER ->
               LET st1 == calculate_sample_stats(a.sample_1.xs)
                   st2 == calculate_sample_stats(a.sample_2.xs)
               IN  [c EXCEPT !.args = [a EXCEPT !.x_bar_1 = st1.mean,
                                                !.x_bar_2 = st2.mean,
                                                !.s_sq_1 = st1.variance,
                                                !.s_sq_2 = st2.variance,
                                                !.n_1 = st1.n, !.n_2 = st2.n,
                                                !.sample_1 = NoSample,
                                                !.sample_2 = NoSample]]

(* the call is in raw-sample mode with every sample of length >= 2 *)
RawSampleCall ==
    /\ Done
    /\ IsHC
    /\ \/ /\ call.proc \in OneSampleHC
          /\ SampleArg.given
          /\ Len(SampleArg.xs) >= 2
       \/ /\ call.proc \in TwoSampleHC
          /\ call.args.sample_1.given /\ Len(call.args.sample_1.xs) >= 2
          /\ call.args.sample_2.given /\ Len(call.args.sample_2.xs) >= 2

(* C1: in each of the seven families of hypothesis_calc.py that accept a   *)
(* raw sample, a raw-sample call on samples of length >= 2 ends exactly as *)
(* the summary call on the statistics calculate_sample_stats yields: the   *)
(* same result mapping or the same error.                                  *)
C1_RawEqualsSummary ==
    RawSampleCall => outcome = Run(SummaryCounterpart(call))

(* a chi-square call on a raw sample whose variance and standard deviation *)
(* differ has returned a result                                            *)
C1_Witness ==
    /\ RawSampleCall
    /\ call.proc = "test_variance"
    /\ call.args.sample.xs = <<0, 3>>
    /\ GotResult


----------------------------------------------------------------------------
(* C2: the significance level must lie strictly between 0 and 1            *)

(* the outcome of the same call with a significance level inside (0,1) *)
WithValidAlpha == Run(With(call, "alpha", ValidAlpha))

(* C2: in both implementations no call whose alpha is <= 0 or >= 1 returns *)
(* a result.  Such a call ends in the significance-level error, unless a   *)
(* failure that does not depend on alpha comes first, in which case it     *)
(* ends exactly as the same call with a valid alpha does (and that is a    *)
(* failure); in particular it ends in the significance-level error         *)
(* whenever the same call with a valid alpha returns a result.  A call     *)
(* whose alpha lies in (0,1) never ends in the significance-level error.   *)
C2_AlphaOpenInterval ==
    Done =>
        /\ AlphaOutOfRange =>
              /\ ~GotResult
              /\ \/ IsAlphaError
                 \/ outcome = WithValidAlpha
        /\ IsAlphaError => AlphaOutOfRange

(* calls with alpha = 1 exactly and everything else valid have ended in the *)
(* significance-level error                                                 *)
C2_Witness ==
    /\ AlphaOutOfRange
    /\ AlphaArg = One
    /\ call.proc \in {"test_mean_unknown_variance", "z_proporcao"}
    /\ WithValidAlpha.kind = "result"
    /\ IsAlphaError


----------------------------------------------------------------------------
(* Arguments of a call, by role                                            *)

(* the number passed for argument f of call c (None when absent or not a   *)
(* number)                                                                 *)
ArgValue(c, f) == IF c.impl = "hc" THEN c.args[f] ELSE c.args[f].v

(* the number v as call c passes it: a keyword argument or a typed answer *)
Lit(c, v) == IF c.impl = "hc" THEN v ELSE NumTok(v)

(* the call c with each argument of the set fields replaced by v *)
Repaired(c, fields, v) ==
    [c EXCEPT !.args = [f \in DOMAIN c.args |->
                            IF f \in fields THEN Lit(c, v) ELSE c.args[f]]]

(* the call of hypothesis_calc.py uses its summary arguments: no raw       *)
(* sample replaces them                                                    *)
SummaryMode ==
    /\ Done
    /\ IsHC
    /\ call.proc \in OneSampleHC => ~SampleArg.given
    /\ call.proc \in TwoSampleHC =>
           ~(call.args.sample_1.given /\ call.args.sample_2.given)

SizeFields == {"n", "n_1", "n_2", "n1", "n2"} \cap DOMAIN call.args

(* the sample sizes of the call that are numbers <= 1 *)
SmallSizes ==
    {f \in SizeFields : IsQ(ArgValue(call, f)) /\ QLe(ArgValue(call, f), One)}

IsSampleSizeError ==
    \/ outcome = SampleSizeError
    \/ outcome = ParamError("n")

SpreadFields ==
    IF IsHC
    THEN {"s", "s_d", "sigma", "s_sq", "s_sq_1", "s_sq_2"} \cap DOMAIN call.args
    ELSE {"s", "s1", "s2"} \cap DOMAIN call.args

(* the spread parameters of the call that are negative numbers *)
NegativeSpreads ==
    {f \in SpreadFields : IsQ(ArgValue(call, f)) /\ QLt(ArgValue(call, f), Num(0))}

(* the spread parameters of the call that are zero *)
ZeroSpreads == {f \in SpreadFields : IsZero(ArgValue(call, f))}

IsSpreadError == outcome = ParamError("S")

(* the call ended in a validation error *)
ValidationError == outcome.kind \in {"raised", "caught"} /\ outcome.exc = "ValueError"

----------------------------------------------------------------------------
(* C3: sample sizes n <= 1                                                 *)

(* C3: in both implementations a call that passes a sample size n <= 1     *)
(* (for hypothesis_calc.py: in summary mode, where the argument is the     *)
(* sample size) returns no result, and it ends in the insufficient-sample- *)
(* size error whenever the same call with the small sizes replaced by 2    *)
(* returns a result; any of n, n1, n2 triggers it.                         *)
C3_SmallSampleRejected ==
    (Done /\ (IsHC => SummaryMode) /\ SmallSizes # {}) =>
        /\ ~GotResult
        /\ Run(Repaired(call, SmallSizes, Num(2))).kind = "result" => IsSampleSizeError

----------------------------------------------------------------------------
(* C4: negative spread parameters                                          *)

(* C4: in both implementations a call that passes a negative standard      *)
(* deviation or variance (for hypothesis_calc.py: in summary mode) returns *)
(* no result, and it ends in the spread-parameter error whenever the same  *)
(* call with the negative spreads replaced by 2 returns a result.          *)
C4_NegativeSpreadRejected ==
    (Done /\ (IsHC => SummaryMode) /\ NegativeSpreads # {}) =>
        /\ ~GotResult
        /\ Run(Repaired(call, NegativeSpreads, Num(2))).kind = "result" => IsSpreadError

----------------------------------------------------------------------------
(* C5: divisors that are zero                                              *)

OneSampleMeanTests ==
    {"test_mean_unknown_variance", "test_paired_samples", "test_mean_known_variance",
     "t_media_var_desconhecida", "z_media_var_conhecida", "t_pareado"}

TwoSampleMeanTests ==
    {"test_diff_means_equal_variances", "test_diff_means_welch",
     "t_dif_medias_var_iguais", "t_welch_dif_medias"}

(* the hypothesized proportion of a one-sample proportion call is 0 or 1 *)
DegenerateP0 ==
    /\ call.proc \in {"test_proportion", "z_proporcao"}
    /\ IsQ(ArgValue(call, "p_0"))
    /\ ArgValue(call, "p_0") \in {Num(0), One}

(* the call divides by zero: zero standard deviation in a one-sample t or  *)
(* z test, zero second variance in the F test, both variances zero in the  *)
(* pooled or Welch test, hypothesized proportion 0 or 1                    *)
ZeroDivisorCall ==
    /\ Done
    /\ IsHC => SummaryMode
    /\ \/ call.proc \in OneSampleMeanTests /\ ZeroSpreads # {}
       \/ call.proc = "test_diff_variances" /\ "s_sq_2" \in ZeroSpreads
       \/ call.proc = "f_dif_variancias" /\ "s2" \in ZeroSpreads
       \/ call.proc \in TwoSampleMeanTests /\ ZeroSpreads = SpreadFields
       \/ DegenerateP0

(* a result mapping holds an infinite or undefined number *)
NonFiniteResult ==
    GotResult /\ \E i \in 1..Len(outcome.res) : outcome.res[i].val.k \in {"inf", "nan"}

(* C5: in both implementations a call whose divisor is zero ends in a      *)
(* validation error: it neither returns an infinite or undefined statistic *)
(* nor raises an arithmetic exception.                                     *)
C5_ZeroDivisorChecked ==
    ZeroDivisorCall =>
        /\ ValidationError
        /\ ~NonFiniteResult
        /\ outcome.exc # "ZeroDivisionError"


----------------------------------------------------------------------------
(* C6: the hypothesized variance of the chi-square test                    *)

Chi2Call == Done /\ call.proc \in {"test_variance", "chi2_variancia"}

NullVarianceField == IF IsHC THEN "sigma_0_sq" ELSE "sigma2_0"

NullVarianceArg == ArgValue(call, NullVarianceField)

IsNullVarianceError ==
    \/ outcome = NullVarianceError
    \/ outcome = VarianciaHipoteticaError

(* (n-1)*s^2/sigma0^2 on the data the chi-square call works with, as the   *)
(* result mapping reports it: rounded to two decimals by hypothesis_calc   *)
Chi2Expected ==
    IF IsHC
    THEN LET st == calculate_sample_stats(call.args.sample.xs)
             s2 == IF call.args.sample.given THEN st.variance ELSE call.args.s_sq
             n  == IF call.args.sample.given THEN st.n ELSE call.args.n
         IN  Round2(QDiv(QMul(QSub(n, One), s2), NullVarianceArg))
    ELSE QDiv(QMul(QSub(ArgValue(call, "n"), One), QSq(ArgValue(call, "s"))),
              NullVarianceArg)

Chi2Reported ==
    Lookup(outcome.res, IF IsHC THEN "chi_sq_calc" ELSE "chi2_calculado")

(* C6: in both implementations, and for hypothesis_calc.py in raw-sample   *)
(* and in summary mode, a chi-square call with sigma0^2 <= 0 returns no    *)
(* result: it ends in the null-variance error, unless a failure that does  *)
(* not depend on sigma0^2 comes first (then it ends as the same call with  *)
(* sigma0^2 = 2 does).  The null-variance error is raised only for         *)
(* sigma0^2 <= 0, and a result is returned only for sigma0^2 > 0, its      *)
(* statistic being (n-1)*s^2/sigma0^2.                                     *)
C6_NullVariancePositive ==
    (Chi2Call /\ IsQ(NullVarianceArg)) =>
        /\ QLe(NullVarianceArg, Num(0)) =>
              /\ ~GotResult
              /\ \/ IsNullVarianceError
                 \/ outcome = Run(Repaired(call, {NullVarianceField}, Num(2)))
        /\ IsNullVarianceError => QLe(NullVarianceArg, Num(0))
        /\ GotResult =>
              /\ QLt(Num(0), NullVarianceArg)
              /\ Chi2Reported = Chi2Expected

(* a raw-sample chi-square call with sigma0^2 = 0 has ended in the         *)
(* null-variance error                                                     *)
C6_Witness ==
    /\ Chi2Call
    /\ IsHC
    /\ call.args.sample.given
    /\ NullVarianceArg = Num(0)
    /\ IsNullVarianceError

----------------------------------------------------------------------------
(* C7: proportions lie in [0,1]                                            *)

ProportionCall ==
    /\ Done
    /\ call.proc \in {"test_proportion", "test_diff_proportions",
                      "z_proporcao", "z_dif_proporcoes"}

OutsideUnitInterval(p) == IsQ(p) /\ (QLt(p, Num(0)) \/ QLt(One, p))

(* the observed proportion is derived from success counts *)
DerivesProportion ==
    \/ /\ call.proc = "test_proportion"
       /\ ~IsNone(call.args.successes)
       /\ ~IsNone(call.args.n)
    \/ /\ call.proc = "test_diff_proportions"
       /\ ~IsNone(call.args.successes_1)
       /\ ~IsNone(call.args.successes_2)

(* the arguments of the call that hold a proportion it works with *)
ProportionFields ==
    CASE call.proc = "test_proportion" ->
            IF DerivesProportion THEN {"p_0"} ELSE {"p_hat", "p_0"}
      [] call.proc = "test_diff_proportions" ->
            IF DerivesProportion THEN {} ELSE {"p_hat_1", "p_hat_2"}
      [] call.proc = "z_proporcao" -> {"p_hat", "p_0"}
      [] OTHER -> {"p1", "p2"}

(* the success counts of the call, each with the size it is divided by *)
SuccessFields ==
    IF ~DerivesProportion THEN {}
    ELSE IF call.proc = "test_proportion" THEN {<<"successes", "n">>}
    ELSE {<<"successes_1", "n_1">>, <<"successes_2", "n_2">>}

BadProportions == {f \in ProportionFields : OutsideUnitInterval(ArgValue(call, f))}

(* success counts with successes/n outside [0,1] *)
BadSuccesses ==
    {sf[1] : sf \in {x \in SuccessFields :
                        /\ IsQ(call.args[x[2]])
                        /\ ~IsZero(call.args[x[2]])
                        /\ OutsideUnitInterval(QDiv(call.args[x[1]], call.args[x[2]]))}}

IsProportionError ==
    \/ outcome = ProportionError
    \/ outcome = ProporcoesError

(* the same call with the out-of-range proportions replaced by 1/2 and the *)
(* out-of-range success counts by 1                                        *)
WithProportionsInRange ==
    Run(Repaired(Repaired(call, BadProportions, Q(1, 2)), BadSuccesses, Num(1)))

(* C7: in the one-sample and two-sample proportion procedures of both      *)
(* implementations, a call with an observed or hypothesized proportion     *)
(* outside [0,1] (an observed proportion derived as successes/n included)  *)
(* returns no result: it ends in the proportion error, unless a failure    *)
(* that does not depend on the proportions comes first.  The proportion    *)
(* error is raised only for a proportion outside [0,1]: 0 and 1 pass the   *)
(* range check.                                                            *)
C7_ProportionRange ==
    ProportionCall =>
        /\ (BadProportions # {} \/ BadSuccesses # {}) =>
              /\ ~GotResult
              /\ \/ IsProportionError
                 \/ outcome = WithProportionsInRange
        /\ IsProportionError => (BadProportions # {} \/ BadSuccesses # {})

(* a call with 3 successes in 2 trials has ended in the proportion error *)
C7_Witness ==
    /\ ProportionCall
    /\ call.proc = "test_proportion"
    /\ call.args.successes = Num(3)
    /\ call.args.n = Num(2)
    /\ BadSuccesses = {"successes"}
    /\ IsProportionError


----------------------------------------------------------------------------
(* C9: tail selectors of calculadora_testes_hipoteses.py                   *)

(* the tail selector as the procedure reads it (lower-cased, stripped) *)
TipoArg == LowerStrip(call.args.tipo)

IsFTest == call.proc = "f_dif_variancias"

(* the tail selector is outside the set the family allows *)
TipoNotAllowed ==
    IF IsFTest
    THEN TipoArg \notin {"bilateral", "unilateral_dir"}
    ELSE TipoArg \notin {"bilateral", "unilateral_dir", "unilateral_esq"}

IsTipoError == outcome = TipoError \/ outcome = TipoErrorF

(* the call ended in the number-format error of some prompt *)
IsNumericFormatError ==
    \E nome_var \in {"X", "mu0", "S", "n", "alpha", "sigma", "sigma0^2", "p", "p0",
                      "X1", "X2", "S1", "S2", "n1", "n2", "d", "Delta", "Sd",
                      "sigma1", "sigma2", "p1", "p2"} :
        outcome = NumericFormatError(nome_var)

(* C9: a call of calculadora_testes_hipoteses.py whose tail selector is    *)
(* outside {bilateral, unilateral_dir, unilateral_esq} (t, z, chi-square)  *)
(* or outside {bilateral, unilateral_dir} (F test) produces no result and  *)
(* ends in an error: the invalid-tail-type error, or the number-format     *)
(* error of an answer read before the selector is examined.  The           *)
(* invalid-tail-type error is given for no allowed selector, and every     *)
(* result of the F test is for bilateral or unilateral_dir.                *)
C9_TailSelectorRejected ==
    (Done /\ IsCTH) =>
        /\ TipoNotAllowed =>
              /\ ~GotResult
              /\ IsTipoError \/ IsNumericFormatError
        /\ IsTipoError => TipoNotAllowed
        /\ (GotResult /\ IsFTest) =>
              Lookup(outcome.res, "Tipo de Teste") \in {Str("bilateral"),
                                                       Str("unilateral_dir")}

(* an F test asked for the lower tail, with valid numbers, has been refused *)
C9_Witness ==
    /\ Done
    /\ IsCTH
    /\ IsFTest
    /\ TipoArg = "unilateral_esq"
    /\ outcome = TipoErrorF
    /\ Run(With(call, "tipo", "unilateral_dir")).kind = "result"

----------------------------------------------------------------------------
(* C10: critical values of the t and z families                            *)

TFamiliesCTH == {"t_media_var_desconhecida", "t_dif_medias_var_iguais",
                 "t_welch_dif_medias", "t_pareado"}

ZFamiliesCTH == {"z_media_var_conhecida", "z_proporcao",
                 "z_dif_medias_var_conhecidas", "z_dif_proporcoes"}

TFamiliesHC == {"test_mean_unknown_variance", "test_diff_means_equal_variances",
                "test_diff_means_welch", "test_paired_samples"}

ZFamiliesHC == {"test_mean_known_variance", "test_proportion", "test_diff_proportions"}

(* a t or z call has returned a result; the degrees of freedom of a t     *)
(* distribution are positive (hypothesis_calc.py lets a negative variance  *)
(* through, which can make the Welch degrees of freedom zero)              *)
SymmetricResult ==
    /\ GotResult
    /\ call.proc \in TFamiliesCTH \cup ZFamiliesCTH \cup TFamiliesHC \cup ZFamiliesHC
    /\ call.proc \in TFamiliesHC => QLt(Num(0), Lookup(outcome.res, "df"))

SymmetricDist ==
    IF call.proc \in TFamiliesCTH \cup TFamiliesHC THEN "t" ELSE "norm"

(* v is the quantile of the call's distribution at probability p, negated  *)
(* or not                                                                  *)
IsQuantile(v, p, negated) ==
    /\ v.k = "ppf"
    /\ v.dist = SymmetricDist
    /\ v.p = p
    /\ v.neg = negated

(* the critical value a result of calculadora_testes_hipoteses.py reports *)
CriticoOf(res) ==
    Lookup(res, IF SymmetricDist = "t" THEN "t_critico" ELSE "z_critico")

(* the result of the same call asked for the upper tail *)
UpperTailed == Run(With(call, "tipo", "unilateral_dir")).res

----------------------------------------------------------------------------
(* C8: incomplete parameters in hypothesis_calc.py                         *)

Absent(f) == IsNone(call.args[f])

SomeAbsent(fields) == \E f \in fields : Absent(f)

(* both raw samples of a two-sample call are supplied *)
BothSamples == call.args.sample_1.given /\ call.args.sample_2.given

(* a field that is mandatory for the family is absent both as a summary    *)
(* argument and through raw input (sample or success count)                *)
MissingMandatory ==
    CASE call.proc = "test_mean_unknown_variance" ->
            \/ ~SampleArg.given /\ SomeAbsent({"x_bar", "s", "n"})
            \/ SomeAbsent({"mu_0", "alpha"})
      [] call.proc = "test_paired_samples" ->
            \/ ~SampleArg.given /\ SomeAbsent({"d_bar", "s_d", "n"})
            \/ Absent("alpha")
      [] call.proc = "test_mean_known_variance" ->
            \/ ~SampleArg.given /\ SomeAbsent({"x_bar", "n"})
            \/ SomeAbsent({"sigma", "mu_0", "alpha"})
      [] call.proc = "test_variance" ->
            \/ ~SampleArg.given /\ SomeAbsent({"s_sq", "n"})
            \/ SomeAbsent({"sigma_0_sq", "alpha"})
      [] call.proc = "test_proportion" ->
            \/ Absent("p_hat") /\ Absent("successes")
            \/ SomeAbsent({"p_0", "n", "alpha"})
      [] call.proc = "test_diff_proportions" ->
            \/ Absent("p_hat_1") /\ Absent("successes_1")
            \/ Absent("p_hat_2") /\ Absent("successes_2")
            \/ SomeAbsent({"n_1", "n_2", "alpha"})
      [] call.proc = "test_diff_variances" ->
            \/ ~BothSamples /\ SomeAbsent({"s_sq_1", "s_sq_2", "n_1", "n_2"})
            \/ Absent("alpha")
      [] OTHER ->
            \/ ~BothSamples /\ SomeAbsent({"x_bar_1", "x_bar_2", "s_sq_1", "s_sq_2",
                                           "n_1", "n_2"})
            \/ Absent("alpha")

(* no raw sample the call summarizes is shorter than 2 *)
NoShortSample ==
    /\ call.proc \in OneSampleHC => (SampleArg.given => Len(SampleArg.xs) >= 2)
    /\ call.proc \in TwoSampleHC =>
           (BothSamples => /\ Len(call.args.sample_1.xs) >= 2
                           /\ Len(call.args.sample_2.xs) >= 2)

(* C8: a call of hypothesis_calc.py in which a mandatory field is absent   *)
(* both as a summary argument and through raw input (no supplied sample    *)
(* being too short to summarize) fails with the incomplete-parameters      *)
(* error, never with another exception.                                    *)
C8_MissingFieldIncomplete ==
    (Done /\ IsHC /\ NoShortSample /\ MissingMandatory) => outcome = Incomplete


----------------------------------------------------------------------------
(* C11: critical values of the chi-square test                             *)

Chi2Result == Chi2Call /\ GotResult

(* the sample size the chi-square call works with *)
Chi2N ==
    IF IsHC
    THEN (IF call.args.sample.given THEN Num(Len(call.args.sample.xs)) ELSE call.args.n)
    ELSE ArgValue(call, "n")

(* v is the chi-square quantile at probability p with n-1 degrees of       *)
(* freedom, not negated                                                    *)
IsChi2Quantile(v, p) ==
    /\ v.k = "ppf"
    /\ v.dist = "chi2"
    /\ v.p = p
    /\ v.df1 = QSub(Chi2N, One)
    /\ ~v.neg

(* C11: a chi-square result has df = n-1.  In calculadora_testes_hipoteses *)
(* a two-tailed request yields the pair quantile(alpha/2) (lower) and      *)
(* quantile(1-alpha/2) (upper), distinct, the lower one at the smaller     *)
(* probability; an upper-tailed request yields quantile(1-alpha) and a     *)
(* lower-tailed one quantile(alpha).  hypothesis_calc.py reports the same  *)
(* four quantiles side by side.  No chi-square critical value is the       *)
(* negation of a quantile.                                                 *)
C11_Chi2CriticalValues ==
    Chi2Result =>
        LET res == outcome.res
            alpha == AlphaArg
        IN  IF IsCTH
            THEN /\ TipoArg = "bilateral" =>
                      /\ IsChi2Quantile(Lookup(res, "chi2_critico (inferior)"),
                                        QDiv(alpha, Num(2)))
                      /\ IsChi2Quantile(Lookup(res, "chi2_critico (superior)"),
                                        OneMinusHalf(alpha))
                      /\ QLt(Lookup(res, "chi2_critico (inferior)").p,
                             Lookup(res, "chi2_critico (superior)").p)
                      /\ ~HasKey(res, "chi2_critico")
                 /\ TipoArg = "unilateral_dir" =>
                      IsChi2Quantile(Lookup(res, "chi2_critico"), OneMinus(alpha))
                 /\ TipoArg = "unilateral_esq" =>
                      IsChi2Quantile(Lookup(res, "chi2_critico"), alpha)
            ELSE /\ IsChi2Quantile(Lookup(res, "chi_sq_critico_bilateral_lower"),
                                   QDiv(alpha, Num(2)))
                 /\ IsChi2Quantile(Lookup(res, "chi_sq_critico_bilateral_upper"),
                                   OneMinusHalf(alpha))
                 /\ QLt(Lookup(res, "chi_sq_critico_bilateral_lower").p,
                        Lookup(res, "chi_sq_critico_bilateral_upper").p)
                 /\ IsChi2Quantile(Lookup(res, "chi_sq_critico_unilateral_dir"),
                                   OneMinus(alpha))
                 /\ IsChi2Quantile(Lookup(res, "chi_sq_critico_unilateral_esq"), alpha)

(* a lower-tailed chi-square test has returned its critical value *)
C11_Witness ==
    /\ Chi2Result
    /\ IsCTH
    /\ TipoArg = "unilateral_esq"
    /\ Lookup(outcome.res, "chi2_critico").k = "ppf"


----------------------------------------------------------------------------
(* C12: statistic and degrees of freedom of the variance-ratio (F) test    *)

FResult == GotResult /\ call.proc \in {"f_dif_variancias", "test_diff_variances"}

(* the two sample variances and sizes the F call works with *)
FVar1 ==
    IF IsCTH THEN QSq(ArgValue(call, "s1"))
    ELSE IF BothSamples THEN calculate_sample_stats(call.args.sample_1.xs).variance
    ELSE call.args.s_sq_1

FVar2 ==
    IF IsCTH THEN QSq(ArgValue(call, "s2"))
    ELSE IF BothSamples THEN calculate_sample_stats(call.args.sample_2.xs).variance
    ELSE call.args.s_sq_2

FSize1 ==
    IF IsCTH THEN ArgValue(call, "n1")
    ELSE IF BothSamples THEN Num(Len(call.args.sample_1.xs))
    ELSE call.args.n_1

FSize2 ==
    IF IsCTH THEN ArgValue(call, "n2")
    ELSE IF BothSamples THEN Num(Len(call.args.sample_2.xs))
    ELSE call.args.n_2

(* v is the F quantile at probability p with (df1, df2) degrees of freedom *)
IsFQuantile(v, p, df1, df2) ==
    /\ v.k = "ppf"
    /\ v.dist = "f"
    /\ v.p = p
    /\ v.df1 = df1
    /\ v.df2 = df2
    /\ ~v.neg

(* v is the two-tailed critical value the claim describes: quantile        *)
(* (1-alpha/2) with the numerator degrees of freedom of the sample whose   *)
(* variance is the larger                                                  *)
IsTwoTailedFCritical(v) ==
    /\ QLt(FVar2, FVar1) =>
          IsFQuantile(v, OneMinusHalf(AlphaArg), QSub(FSize1, One), QSub(FSize2, One))
    /\ QLt(FVar1, FVar2) =>
          IsFQuantile(v, OneMinusHalf(AlphaArg), QSub(FSize2, One), QSub(FSize1, One))

(* the F test of calculadora_testes_hipoteses.py *)
FTestOfCalculadora ==
    (FResult /\ IsCTH) =>
        LET f    == Lookup(outcome.res, "F_calculado")
            crit == Lookup(outcome.res, "F_critico")
        IN  /\ TipoArg = "bilateral" =>
                  /\ f = QDiv(QMax(FVar1, FVar2), QMin(FVar1, FVar2))
                  /\ QLe(One, f)
                  /\ IsTwoTailedFCritical(crit)
            /\ TipoArg = "unilateral_dir" =>
                  /\ f = QDiv(FVar1, FVar2)
                  /\ IsFQuantile(crit, OneMinus(AlphaArg),
                                 QSub(FSize1, One), QSub(FSize2, One))

(* the F test of hypothesis_calc.py: one result carries the two-tailed and *)
(* the directional critical value; the two-tailed one goes with the        *)
(* statistic max/min, so whenever sample 2 has the larger variance the     *)
(* statistic reported beside it must be that ratio                         *)
FTestOfHypothesisCalc ==
    (FResult /\ IsHC /\ QLt(Num(0), FVar1) /\ QLt(Num(0), FVar2)) =>
        LET f == Lookup(outcome.res, "f_calc")
        IN  /\ IsTwoTailedFCritical(Lookup(outcome.res, "f_critico_bilateral"))
            /\ IsFQuantile(Lookup(outcome.res, "f_critico_unilateral"),
                           OneMinus(AlphaArg), QSub(FSize1, One), QSub(FSize2, One))
            /\ QLt(FVar1, FVar2) =>
                  /\ f = Round2(QDiv(QMax(FVar1, FVar2), QMin(FVar1, FVar2)))
                  /\ QLe(One, f)

(* C12: in the two-tailed F test the statistic is max(s1^2,s2^2)/          *)
(* min(s1^2,s2^2), hence >= 1, and the critical value quantile(1-alpha/2)  *)
(* is taken with (n1-1, n2-1) when sample 1 has the larger variance and    *)
(* with (n2-1, n1-1) when sample 2 has it; in the directional test the     *)
(* statistic is s1^2/s2^2 with (n1-1, n2-1).                               *)
C12_FStatisticAndDf == FTestOfCalculadora /\ FTestOfHypothesisCalc


----------------------------------------------------------------------------
(* C13: bounds of the Welch degrees of freedom                             *)

WelchResult == GotResult /\ call.proc \in {"test_diff_means_welch", "t_welch_dif_medias"}

(* the variances and sizes the Welch call works with *)
WelchVar1 ==
    IF IsCTH THEN QSq(ArgValue(call, "s1"))
    ELSE IF BothSamples THEN calculate_sample_stats(call.args.sample_1.xs).variance
    ELSE call.args.s_sq_1

WelchVar2 ==
    IF IsCTH THEN QSq(ArgValue(call, "s2"))
    ELSE IF BothSamples THEN calculate_sample_stats(call.args.sample_2.xs).variance
    ELSE call.args.s_sq_2

WelchSize1 ==
    IF IsCTH THEN ArgValue(call, "n1")
    ELSE IF BothSamples THEN Num(Len(call.args.sample_1.xs))
    ELSE call.args.n_1

WelchSize2 ==
    IF IsCTH THEN ArgValue(call, "n2")
    ELSE IF BothSamples THEN Num(Len(call.args.sample_2.xs))
    ELSE call.args.n_2

(* n1, n2 >= 2, variances >= 0 and not both zero *)
WelchInputsValid ==
    /\ QLe(Num(2), WelchSize1)
    /\ QLe(Num(2), WelchSize2)
    /\ QLe(Num(0), WelchVar1)
    /\ QLe(Num(0), WelchVar2)
    /\ ~(IsZero(WelchVar1) /\ IsZero(WelchVar2))

(* the degrees of freedom the Welch call hands to the Student-t quantile *)
WelchDf ==
    Lookup(outcome.res, IF IsCTH THEN "t_critico" ELSE "t_critico_bilateral").df1

(* C13: for valid inputs the Welch degrees of freedom lie between          *)
(* min(n1,n2)-1 and n1+n2-2 inclusive.                                     *)
C13_WelchDfBounds ==
    (WelchResult /\ WelchInputsValid) =>
        /\ QLe(QSub(QMin(WelchSize1, WelchSize2), One), WelchDf)
        /\ QLe(WelchDf, QSub(QAdd(WelchSize1, WelchSize2), Num(2)))


----------------------------------------------------------------------------
(* C14: degrees of freedom of the pooled two-sample t test                 *)

PooledResult ==
    GotResult /\ call.proc \in {"test_diff_means_equal_variances", "t_dif_medias_var_iguais"}

(* the variances and sizes the pooled call works with: hypothesis_calc.py  *)
(* takes variances, calculadora_testes_hipoteses.py standard deviations    *)
(* that it squares                                                         *)
PooledVar1 ==
    IF IsCTH THEN QSq(ArgValue(call, "s1"))
    ELSE IF BothSamples THEN calculate_sample_stats(call.args.sample_1.xs).variance
    ELSE call.args.s_sq_1

PooledVar2 ==
    IF IsCTH THEN QSq(ArgValue(call, "s2"))
    ELSE IF BothSamples THEN calculate_sample_stats(call.args.sample_2.xs).variance
    ELSE call.args.s_sq_2

PooledSize1 ==
    IF IsCTH THEN ArgValue(call, "n1")
    ELSE IF BothSamples THEN Num(Len(call.args.sample_1.xs))
    ELSE call.args.n_1

PooledSize2 ==
    IF IsCTH THEN ArgValue(call, "n2")
    ELSE IF BothSamples THEN Num(Len(call.args.sample_2.xs))
    ELSE call.args.n_2

(* the sample sizes are whole numbers *)
PooledSizesWhole == PooledSize1.d = 1 /\ PooledSize2.d = 1

(* n1 + n2 - 2 *)
PooledExpectedDf == QSub(QAdd(PooledSize1, PooledSize2), Num(2))

(* ((n1-1)*s1^2 + (n2-1)*s2^2) / (n1+n2-2) *)
PooledExpectedVariance ==
    QDiv(QAdd(QMul(QSub(PooledSize1, One), PooledVar1),
              QMul(QSub(PooledSize2, One), PooledVar2)),
         PooledExpectedDf)

(* C14: in the pooled t procedure of both implementations, for whole       *)
(* sample sizes, the reported degrees of freedom are the integer n1+n2-2;  *)
(* that value is the divisor of the reported pooled variance               *)
(* ((n1-1)*s1^2 + (n2-1)*s2^2)/(n1+n2-2) and the degrees of freedom of     *)
(* every Student-t quantile in the result.                                 *)
C14_PooledDf ==
    (PooledResult /\ PooledSizesWhole) =>
        LET res == outcome.res
        IN  /\ PooledExpectedDf.k = "Q" /\ PooledExpectedDf.d = 1
            /\ IF IsCTH
               THEN /\ Lookup(res, "Graus de Liberdade (gl)") = PooledExpectedDf
                    /\ Lookup(res, "Variancia Ponderada (Sp2)") = PooledExpectedVariance
                    /\ Lookup(res, "t_critico").dist = "t"
                    /\ Lookup(res, "t_critico").df1 = PooledExpectedDf
               ELSE /\ Lookup(res, "df") = PooledExpectedDf
                    /\ Lookup(res, "s_p_sq") = Round2(PooledExpectedVariance)
                    /\ Lookup(res, "t_critico_bilateral").dist = "t"
                    /\ Lookup(res, "t_critico_bilateral").df1 = PooledExpectedDf
                    /\ Lookup(res, "t_critico_unilateral").df1 = PooledExpectedDf

(* a pooled t call with n1 = 3 and n2 = 2 has returned df = 3 *)
C14_Witness ==
    /\ PooledResult
    /\ IsHC
    /\ PooledSize1 = Num(3)
    /\ PooledSize2 = Num(2)
    /\ Lookup(outcome.res, "df") = Num(3)


----------------------------------------------------------------------------
(* C15: raw samples with fewer than 2 elements                             *)

(* the call is in raw-sample mode and a sample it is given is shorter      *)
(* than 2 (empty or of length 1)                                           *)
ShortSampleCall ==
    /\ Done
    /\ IsHC
    /\ \/ /\ call.proc \in OneSampleHC
          /\ SampleArg.given
          /\ Len(SampleArg.xs) < 2
       \/ /\ call.proc \in TwoSampleHC
          /\ BothSamples
          /\ \/ Len(call.args.sample_1.xs) < 2
             \/ Len(call.args.sample_2.xs) < 2

(* the errors that report a sample size below 2 *)
IsInsufficientSample ==
    \/ outcome = SampleStatsError
    \/ outcome = SampleSizeError

(* C15: in every family of hypothesis_calc.py that accepts a sample, a     *)
(* raw-sample call with a sample of fewer than 2 elements fails with the   *)
(* insufficient-sample-size error: never with another exception and never *)
(* with a result computed from the summary arguments.                      *)
C15_ShortSampleRejected == ShortSampleCall => IsInsufficientSample


----------------------------------------------------------------------------
(* C16: the statistics of a raw sample                                     *)

RECURSIVE SumOfSquares(_)
SumOfSquares(xs) ==
    IF xs = <<>> THEN 0 ELSE Head(xs) * Head(xs) + SumOfSquares(Tail(xs))

(* the raw samples a finished call of hypothesis_calc.py has summarized *)
SummarizedSamples ==
    IF ~(Done /\ IsHC) THEN {}
    ELSE IF call.proc \in OneSampleHC \ {"test_mean_known_variance"}
    THEN (IF SampleArg.given /\ Len(SampleArg.xs) >= 2 THEN {SampleArg.xs} ELSE {})
    ELSE IF call.proc \in TwoSampleHC
    THEN (IF /\ BothSamples
             /\ Len(call.args.sample_1.xs) >= 2
             /\ Len(call.args.sample_2.xs) >= 2
          THEN {call.args.sample_1.xs, call.args.sample_2.xs} ELSE {})
    ELSE {}

(* all values of the sample are equal *)
ConstantSample(xs) == \A i \in 1..Len(xs) : xs[i] = xs[1]

(* the sum of squared deviations from the mean, by the shortcut formula    *)
(* sum(x^2) - (sum x)^2 / n                                                *)
SquaredDeviations(xs) ==
    QSub(Num(SumOfSquares(xs)), Q(SumSeq(xs) * SumSeq(xs), Len(xs)))

(* C16: for every sample of length n >= 2 that a call summarizes,          *)
(* calculate_sample_stats yields count n, mean sum/n and variance = sum of *)
(* squared deviations / (n-1), not / n; the variance is >= 0, the standard *)
(* deviation is its square root, and both are 0 for a constant sample.     *)
(* The chi-square result reports that count and that variance.             *)
C16_SampleStatistics ==
    /\ \A xs \in SummarizedSamples :
          LET st == calculate_sample_stats(xs)
              n  == Len(xs)
          IN  /\ st.n = Num(n)
              /\ st.mean = Q(SumSeq(xs), n)
              /\ st.variance = QDiv(SquaredDeviations(xs), Num(n - 1))
              /\ ~ConstantSample(xs) =>
                    st.variance # QDiv(SquaredDeviations(xs), Num(n))
              /\ QLe(Num(0), st.variance)
              /\ SquareOf(st.std_dev) = st.variance
              /\ ConstantSample(xs) => IsZero(st.variance) /\ IsZero(st.std_dev)
    /\ (Done /\ call.proc = "test_variance" /\ GotResult /\ SampleArg.given) =>
          /\ Lookup(outcome.res, "n") = Num(Len(SampleArg.xs))
          /\ Lookup(outcome.res, "s_sq") =
                Round2(QDiv(SquaredDeviations(SampleArg.xs), Num(Len(SampleArg.xs) - 1)))

(* the chi-square test has summarized the sample (0, 3): variance 9/2 *)
C16_Witness ==
    /\ Done
    /\ call.proc = "test_variance"
    /\ GotResult
    /\ SampleArg.xs = <<0, 3>>
    /\ Lookup(outcome.res, "s_sq") = Q(9, 2)


----------------------------------------------------------------------------
(* C17: the order of the keys of a result                                  *)

EchoedInputKeys ==
    {"x_bar", "s", "n", "mu_0", "x_bar_1", "x_bar_2", "s_sq_1", "s_sq_2",
     "n_1", "n_2", "d_bar", "s_d", "delta", "sigma", "p_hat", "p_0", "s_sq",
     "sigma_0_sq", "p_hat_1", "p_hat_2",
     "Tipo de Teste", "Diferenca Hipotetica (Delta)"}

DerivedKeys ==
    {"s_p_sq", "s_p", "w_1", "w_2", "p_hat_pooled",
     "Variancia Ponderada (Sp2)", "Desvio Padrao Ponderado (Sp)",
     "W1 (S1^2/n1)", "W2 (S2^2/n2)", "Proporcao Combinada (p)"}

StatisticKeys ==
    {"t_calc", "z_calc", "chi_sq_calc", "f_calc",
     "t_calculado", "z_calculado", "chi2_calculado", "F_calculado"}

DfKeys ==
    {"df", "df_1", "df_2", "Graus de Liberdade (gl)",
     "Graus de Liberdade 1 (gl1)", "Graus de Liberdade 2 (gl2)",
     "Graus de Liberdade Welch (v)"}

CriticalKeys ==
    {"t_critico_bilateral", "t_critico_unilateral", "z_critico_bilateral",
     "z_critico_unilateral", "chi_sq_critico_bilateral_lower",
     "chi_sq_critico_bilateral_upper", "chi_sq_critico_unilateral_dir",
     "chi_sq_critico_unilateral_esq", "f_critico_bilateral",
     "f_critico_unilateral", "t_critico", "z_critico", "chi2_critico",
     "chi2_critico (inferior)", "chi2_critico (superior)", "F_critico"}

AlphaKeys == {"alpha", "Nivel de Significancia (alpha)"}

(* the place of a key's group in the order the specification fixes *)
GroupRank(key) ==
    IF key \in EchoedInputKeys THEN 1
    ELSE IF key \in DerivedKeys THEN 2
    ELSE IF key \in StatisticKeys THEN 3
    ELSE IF key \in DfKeys THEN 4
    ELSE IF key \in CriticalKeys THEN 5
    ELSE IF key \in AlphaKeys THEN 6
    ELSE 0

(* every key of group a stands before every key of group b *)
GroupBefore(res, a, b) ==
    \A i, j \in 1..Len(res) :
       (GroupRank(res[i].key) = a /\ GroupRank(res[j].key) = b) => i < j

(* the keys of res stand group by group in the fixed order *)
InGroupOrder(res) ==
    /\ \A i \in 1..Len(res) : GroupRank(res[i].key) # 0
    /\ \A i, j \in 1..Len(res) :
          i < j => GroupRank(res[i].key) <= GroupRank(res[j].key)

(* C17: in every result mapping the keys stand in the order echoed inputs, *)
(* derived intermediates, statistic, degrees of freedom, critical values,  *)
(* significance level; in particular the statistic precedes the degrees of *)
(* freedom and the significance level follows the critical values.         *)
C17_FixedKeyOrder ==
    GotResult =>
       /\ InGroupOrder(outcome.res)
       /\ GroupBefore(outcome.res, 3, 4)
       /\ GroupBefore(outcome.res, 5, 6)

(* what the two implementations do keep: hypothesis_calc.py puts the       *)
(* statistic before the degrees of freedom, the other implementation puts  *)
(* the significance level last, and both put the statistic before the      *)
(* critical values                                                         *)
KeyOrderKept ==
    GotResult =>
       /\ \A i \in 1..Len(outcome.res) : GroupRank(outcome.res[i].key) # 0
       /\ GroupBefore(outcome.res, 3, 5)
       /\ IsHC => GroupBefore(outcome.res, 3, 4)
       /\ IsCTH => GroupBefore(outcome.res, 5, 6)


----------------------------------------------------------------------------
(* C18: the contents of a result                                           *)

(* the number of entries of res whose key is in the set keys *)
CountKeys(res, keys) == Cardinality({i \in 1..Len(res) : res[i].key \in keys})

(* the families whose statistic has degrees of freedom *)
FamiliesWithDf ==
    TFamiliesCTH \cup TFamiliesHC
       \cup {"chi2_variancia", "test_variance", "f_dif_variancias", "test_diff_variances"}

(* the families whose distribution is not symmetric *)
AsymmetricFamilies ==
    {"chi2_variancia", "test_variance", "f_dif_variancias", "test_diff_variances"}

(* the call selected the two-tailed test *)
TwoTailedSelected == IsCTH /\ TipoArg = "bilateral"

(* the result echoes the call's significance level and at least one more   *)
(* input parameter                                                         *)
EchoesInputs(res) ==
    /\ CountKeys(res, EchoedInputKeys) >= 1
    /\ \E i \in 1..Len(res) : res[i].key \in AlphaKeys /\ res[i].val = AlphaArg

(* C18: every result mapping contains the echoed input parameters, the     *)
(* calculated statistic, the degrees of freedom whenever the family        *)
(* defines them, and one or two critical values: two only when the         *)
(* two-tailed test of an asymmetric distribution was selected.             *)
C18_ResultContents ==
    GotResult =>
       LET res == outcome.res
           crit == CountKeys(res, CriticalKeys)
       IN  /\ EchoesInputs(res)
           /\ CountKeys(res, StatisticKeys) = 1
           /\ call.proc \in FamiliesWithDf => CountKeys(res, DfKeys) >= 1
           /\ crit \in {1, 2}
           /\ (IsCTH /\ crit = 2) =>
                 (call.proc \in AsymmetricFamilies /\ TwoTailedSelected)

(* what does hold: the other implementation keeps the claim, and           *)
(* hypothesis_calc.py has everything but the number of critical values     *)
ResultContentsKept ==
    GotResult =>
       LET res == outcome.res
           crit == CountKeys(res, CriticalKeys)
       IN  /\ EchoesInputs(res)
           /\ CountKeys(res, StatisticKeys) = 1
           /\ call.proc \in FamiliesWithDf => CountKeys(res, DfKeys) >= 1
           /\ IsCTH => /\ crit \in {1, 2}
                       /\ crit = 2 <=> (call.proc = "chi2_variancia" /\ TwoTailedSelected)
           /\ IsHC => crit = (IF call.proc = "test_variance" THEN 4 ELSE 2)


----------------------------------------------------------------------------
(* C19: a validation failure leaves the procedure as an error              *)

(* C19: a call in which a validation failed ends with the error raised out *)
(* of the test-family procedure: the procedure has not caught it and has   *)
(* returned nothing in its place, neither a result nor a null result.      *)
C19_ValidationRaised ==
    (Done /\ ValidationError) =>
       /\ outcome.kind = "raised"
       /\ outcome.res = NoResult

(* hypothesis_calc.py lets every validation error out of the procedure;    *)
(* the other implementation catches every one and returns None             *)
ValidationPropagation ==
    (Done /\ ValidationError) =>
       /\ outcome.res = NoResult
       /\ IsHC => outcome.kind = "raised"
       /\ IsCTH => outcome.kind = "caught"


----------------------------------------------------------------------------
(* C20: the families on offer and the menu's dispatch                      *)

(* the ten test families of the specification's table *)
TenFamilies ==
    {"t mean", "z mean", "chi2 variance", "z proportion", "t pooled",
     "t welch", "t paired", "z two means", "z two proportions", "f variances"}

(* the family each procedure of hypothesis_calc.py computes *)
FamilyOfHC(proc) ==
    CASE proc = "test_mean_unknown_variance" -> "t mean"
      [] proc = "test_diff_means_equal_variances" -> "t pooled"
      [] proc = "test_diff_means_welch" -> "t welch"
      [] proc = "test_paired_samples" -> "t paired"
      [] proc = "test_mean_known_variance" -> "z mean"
      [] proc = "test_proportion" -> "z proportion"
      [] proc = "test_variance" -> "chi2 variance"
      [] proc = "test_diff_proportions" -> "z two proportions"
      [] proc = "test_diff_variances" -> "f variances"
      [] OTHER -> "none"

(* the family each procedure of calculadora_testes_hipoteses.py computes *)
FamilyOfCTH(proc) ==
    CASE proc = "t_media_var_desconhecida" -> "t mean"
      [] proc = "z_media_var_conhecida" -> "z mean"
      [] proc = "chi2_variancia" -> "chi2 variance"
      [] proc = "z_proporcao" -> "z proportion"
      [] proc = "t_dif_medias_var_iguais" -> "t pooled"
      [] proc = "t_welch_dif_medias" -> "t welch"
      [] proc = "t_pareado" -> "t paired"
      [] proc = "z_dif_medias_var_conhecidas" -> "z two means"
      [] proc = "z_dif_proporcoes" -> "z two proportions"
      [] proc = "f_dif_variancias" -> "f variances"
      [] OTHER -> "none"

(* the options of the menu of the implementation impl *)
MenuOptions(impl) == IF impl = "hc" THEN DOMAIN get_test_type ELSE DOMAIN testes

(* the family the menu lists under option k *)
Listed(impl, k) == IF impl = "hc" THEN get_test_type[k] ELSE testes[k].nome

(* the procedure the menu invokes on option k *)
Invoked(impl, k) == IF impl = "hc" THEN run_interactive_calculator(k) ELSE testes[k].funcao

FamilyOf(impl, proc) == IF impl = "hc" THEN FamilyOfHC(proc) ELSE FamilyOfCTH(proc)

(* the families the implementation impl offers *)
Offered(impl) == {Listed(impl, k) : k \in MenuOptions(impl)}

(* C20: the implementation of a finished call offers all ten families of   *)
(* the table, the two-sample z test for means with known variances among   *)
(* them; each menu option k invokes the procedure of the family listed     *)
(* under k, and the procedure called is the one some option invokes.       *)
C20_TenFamiliesOffered ==
    Done =>
       /\ Offered(call.impl) = TenFamilies
       /\ "z two means" \in Offered(call.impl)
       /\ \A k \in MenuOptions(call.impl) :
             FamilyOf(call.impl, Invoked(call.impl, k)) = Listed(call.impl, k)
       /\ \E k \in MenuOptions(call.impl) : Invoked(call.impl, k) = call.proc

(* what does hold: each option invokes the procedure of the family listed  *)
(* under it, every procedure is reached by exactly one option, the other   *)
(* implementation offers the ten families and hypothesis_calc.py all but   *)
(* the two-sample z test for means; its option 10 is an invalid option     *)
MenuDispatchKept ==
    Done =>
       /\ \A k \in MenuOptions(call.impl) :
             FamilyOf(call.impl, Invoked(call.impl, k)) = Listed(call.impl, k)
       /\ Cardinality({k \in MenuOptions(call.impl) : Invoked(call.impl, k) = call.proc}) = 1
       /\ IsCTH => Offered("cth") = TenFamilies
       /\ IsHC => /\ Offered("hc") = TenFamilies \ {"z two means"}
                  /\ run_interactive_calculator("10") = "invalid option"


----------------------------------------------------------------------------
(* C21: the pooled proportion of the two-sample proportion test            *)

TwoProportionResult ==
    GotResult /\ call.proc \in {"test_diff_proportions", "z_dif_proporcoes"}

(* success counts were supplied and the rates are derived from them *)
CountsSupplied ==
    /\ IsHC
    /\ ~IsNone(call.args.successes_1)
    /\ ~IsNone(call.args.successes_2)

PropSize1 == IF IsHC THEN call.args.n_1 ELSE ArgValue(call, "n1")

PropSize2 == IF IsHC THEN call.args.n_2 ELSE ArgValue(call, "n2")

(* the two rates the call works with *)
PropRate1 ==
    IF IsCTH THEN ArgValue(call, "p1")
    ELSE IF CountsSupplied THEN QDiv(call.args.successes_1, PropSize1)
    ELSE call.args.p_hat_1

PropRate2 ==
    IF IsCTH THEN ArgValue(call, "p2")
    ELSE IF CountsSupplied THEN QDiv(call.args.successes_2, PropSize2)
    ELSE call.args.p_hat_2

(* the pooled proportion of the result *)
PooledReported ==
    IF IsHC THEN Lookup(outcome.res, "p_hat_pooled")
    ELSE Lookup(outcome.res, "Proporcao Combinada (p)")

(* the value v as the result of the implementation shows it *)
AsReported(v) == IF IsHC THEN Round2(v) ELSE v

(* C21: in every result of the two-sample proportion test the pooled       *)
(* proportion is (n1*p1 + n2*p2)/(n1+n2) (two decimals in                  *)
(* hypothesis_calc.py), which is (successes1 + successes2)/(n1+n2) when    *)
(* counts are supplied; it lies between min(p1,p2) and max(p1,p2) and in   *)
(* [0,1]; and it is not the plain average of the rates when that differs.  *)
C21_PooledProportion ==
    TwoProportionResult =>
       LET p1 == PropRate1
           p2 == PropRate2
           n1 == PropSize1
           n2 == PropSize2
           weighted == QDiv(QAdd(QMul(n1, p1), QMul(n2, p2)), QAdd(n1, n2))
           average == QDiv(QAdd(p1, p2), Num(2))
       IN  /\ PooledReported = AsReported(weighted)
           /\ CountsSupplied =>
                 PooledReported =
                    Round2(QDiv(QAdd(call.args.successes_1, call.args.successes_2),
                                QAdd(n1, n2)))
           /\ QLe(AsReported(QMin(p1, p2)), PooledReported)
           /\ QLe(PooledReported, AsReported(QMax(p1, p2)))
           /\ QLe(Num(0), PooledReported) /\ QLe(PooledReported, One)
           /\ AsReported(weighted) # AsReported(average) =>
                 PooledReported # AsReported(average)

(* rates 1 and 0 with sizes 3 and 2: pooled 3/5, not the average 1/2 *)
C21_Witness ==
    /\ TwoProportionResult
    /\ PropRate1 = One /\ PropRate2 = Num(0)
    /\ PropSize1 = Num(3) /\ PropSize2 = Num(2)
    /\ PooledReported = Q(3, 5)


----------------------------------------------------------------------------
(* C22: the one-sample t test                                              *)

OneSampleTResult ==
    GotResult /\ call.proc \in {"test_mean_unknown_variance", "t_media_var_desconhecida"}

(* the mean, spread, size and hypothesized mean the call works with *)
TMean ==
    IF IsCTH THEN ArgValue(call, "x_barra")
    ELSE IF SampleArg.given THEN calculate_sample_stats(SampleArg.xs).mean
    ELSE call.args.x_bar

TSpread ==
    IF IsCTH THEN ArgValue(call, "s")
    ELSE IF SampleArg.given THEN calculate_sample_stats(SampleArg.xs).std_dev
    ELSE call.args.s

TSize ==
    IF IsCTH THEN ArgValue(call, "n")
    ELSE IF SampleArg.given THEN Num(Len(SampleArg.xs))
    ELSE call.args.n

TNullMean == ArgValue(call, "mu_0")

(* a valid input: a whole sample size and a positive spread (the result    *)
(* itself shows alpha in (0,1) and n >= 2)                                 *)
TInputsValid == TSize.d = 1 /\ SignOf(TSpread) = 1

TStatistic == Lookup(outcome.res, IF IsCTH THEN "t_calculado" ELSE "t_calc")

TDfReported == Lookup(outcome.res, IF IsCTH THEN "Graus de Liberdade (gl)" ELSE "df")

(* the critical values of the result *)
TCriticals ==
    IF IsCTH THEN {Lookup(outcome.res, "t_critico")}
    ELSE {Lookup(outcome.res, "t_critico_bilateral"),
          Lookup(outcome.res, "t_critico_unilateral")}

(* the worked example of the specification *)
TWorkedExample ==
    /\ TMean = Num(52) /\ TNullMean = Num(50)
    /\ TSpread = Num(10) /\ TSize = Num(25)

(* C22: for every valid input the one-sample t procedure of either         *)
(* implementation reports n-1 degrees of freedom, every critical value is  *)
(* a Student-t quantile with those n-1 degrees of freedom, and the         *)
(* statistic is (x_bar - mu0)/(s/sqrt(n)); x_bar = 52, mu0 = 50, s = 10,    *)
(* n = 25 give statistic 1.00 and 24 degrees of freedom.                   *)
C22_OneSampleT ==
    (OneSampleTResult /\ TInputsValid) =>
       /\ TDfReported = QSub(TSize, One)
       /\ \A c \in TCriticals :
             c.k = "ppf" /\ c.dist = "t" /\ c.df1 = TDfReported
       /\ TStatistic =
             AsReported(NpDiv(QSub(TMean, TNullMean), NpDiv(TSpread, NpSqrt(TSize))))
       /\ TWorkedExample => TStatistic = Num(1) /\ TDfReported = Num(24)

(* hypothesis_calc.py has computed the worked example *)
C22_Witness ==
    /\ OneSampleTResult /\ IsHC /\ TInputsValid
    /\ TWorkedExample
    /\ TStatistic = Num(1)
    /\ TDfReported = Num(24)

(* the other implementation has computed the worked example *)
WorkedExampleMedia ==
    /\ OneSampleTResult /\ IsCTH /\ TWorkedExample
    /\ TStatistic = Num(1)
    /\ TDfReported = Num(24)


----------------------------------------------------------------------------
(* C23: the degrees of freedom of the Welch test                           *)

WelchW1 == QDiv(WelchVar1, WelchSize1)

WelchW2 == QDiv(WelchVar2, WelchSize2)

(* (W1+W2)^2 / (W1^2/(n1+1) + W2^2/(n2+1)) *)
WelchExpectedDf ==
    QDiv(QMul(QAdd(WelchW1, WelchW2), QAdd(WelchW1, WelchW2)),
         QAdd(QDiv(QMul(WelchW1, WelchW1), QAdd(WelchSize1, One)),
              QDiv(QMul(WelchW2, WelchW2), QAdd(WelchSize2, One))))

WelchMean1 ==
    IF IsCTH THEN ArgValue(call, "x1")
    ELSE IF BothSamples THEN calculate_sample_stats(call.args.sample_1.xs).mean
    ELSE call.args.x_bar_1

WelchMean2 ==
    IF IsCTH THEN ArgValue(call, "x2")
    ELSE IF BothSamples THEN calculate_sample_stats(call.args.sample_2.xs).mean
    ELSE call.args.x_bar_2

WelchStatistic == Lookup(outcome.res, IF IsCTH THEN "t_calculado" ELSE "t_calc")

WelchDfReported ==
    Lookup(outcome.res, IF IsCTH THEN "Graus de Liberdade Welch (v)" ELSE "df")

(* the worked example of the specification *)
WelchWorkedExample ==
    /\ WelchVar1 = Num(4) /\ WelchSize1 = Num(10)
    /\ WelchVar2 = Num(9) /\ WelchSize2 = Num(15)
    /\ WelchMean1 = Num(10) /\ WelchMean2 = Num(8)

(* the Student-t quantile of the result exists *)
WelchQuantileDefined ==
    Lookup(outcome.res, IF IsCTH THEN "t_critico" ELSE "t_critico_bilateral").k = "ppf"

(* C23: in every Welch result with positive degrees of freedom the value   *)
(* handed to the Student-t quantile is                                     *)
(* (W1+W2)^2 / (W1^2/(n1+1) + W2^2/(n2+1)) with                             *)
(* Wi = si^2/ni, the fractional value itself and not its integer part nor  *)
(* its rounding to an integer; s1^2 = 4, n1 = 10, s2^2 = 9, n2 = 15,        *)
(* x_bar1 = 10, x_bar2 = 8 give statistic 2.00 and 26.99 degrees of        *)
(* freedom to two decimals.                                                *)
C23_WelchFractionalDf ==
    WelchResult =>
       /\ WelchDfReported = AsReported(WelchExpectedDf)
       /\ QLt(Num(0), WelchExpectedDf) =>
             /\ WelchQuantileDefined
             /\ WelchDf = WelchExpectedDf
             /\ WelchExpectedDf.d # 1 =>
                   /\ WelchDf # PyInt(WelchExpectedDf)
                   /\ WelchDf.d # 1
       /\ WelchWorkedExample =>
             /\ WelchStatistic = Num(2)
             /\ Round2(WelchDf) = Q(2699, 100)
             /\ WelchDf = Q(4400, 163)

(* hypothesis_calc.py has computed the worked example: df 4400/163 *)
C23_Witness ==
    /\ WelchResult /\ IsHC
    /\ WelchWorkedExample
    /\ WelchStatistic = Num(2)
    /\ WelchDfReported = Q(2699, 100)
    /\ WelchDf = Q(4400, 163)

(* the other implementation has computed the worked example *)
WorkedExampleWelchMedias ==
    /\ WelchResult /\ IsCTH /\ WelchWorkedExample
    /\ WelchStatistic = Num(2)
    /\ WelchDfReported = Q(4400, 163)


----------------------------------------------------------------------------
(* C24: rounding in hypothesis_calc.py                                     *)

PooledMean1 ==
    IF IsCTH THEN ArgValue(call, "x1")
    ELSE IF BothSamples THEN calculate_sample_stats(call.args.sample_1.xs).mean
    ELSE call.args.x_bar_1

PooledMean2 ==
    IF IsCTH THEN ArgValue(call, "x2")
    ELSE IF BothSamples THEN calculate_sample_stats(call.args.sample_2.xs).mean
    ELSE call.args.x_bar_2

(* the Welch statistic from the full-precision W1 and W2 *)
WelchExactT == NpDiv(QSub(WelchMean1, WelchMean2), NpSqrt(QAdd(WelchW1, WelchW2)))

(* the Welch statistic a procedure would get from W1 and W2 rounded to two *)
(* decimals                                                                *)
WelchTFromRounded ==
    NpDiv(QSub(WelchMean1, WelchMean2), NpSqrt(QAdd(Round2(WelchW1), Round2(WelchW2))))

(* the pooled statistic from the full-precision pooled standard deviation *)
PooledExactT ==
    NpDiv(QSub(PooledMean1, PooledMean2),
          NpMul(NpSqrt(PooledExpectedVariance),
                NpSqrt(QAdd(QDiv(One, PooledSize1), QDiv(One, PooledSize2)))))

UnroundedDfToQuantile ==
    /\ WelchResult /\ IsHC
    /\ WelchQuantileDefined
    /\ WelchDf # Lookup(outcome.res, "df")


----------------------------------------------------------------------------
(* C25: the order of the checks in calculadora_testes_hipoteses.py         *)

(* the numeric prompts of the procedure, in prompt order: the argument of  *)
(* the call that holds the answer, and the name the error message uses     *)
PromptOrder ==
    CASE call.proc = "t_media_var_desconhecida" ->
            << <<"x_barra", "X">>, <<"mu_0", "mu0">>, <<"s", "S">>, <<"n", "n">>,
               <<"alpha", "alpha">> >>
      [] call.proc = "z_media_var_conhecida" ->
            << <<"x_barra", "X">>, <<"mu_0", "mu0">>, <<"s", "sigma">>, <<"n", "n">>,
               <<"alpha", "alpha">> >>
      [] call.proc = "chi2_variancia" ->
            << <<"s", "S">>, <<"sigma2_0", "sigma0^2">>, <<"n", "n">>,
               <<"alpha", "alpha">> >>
      [] call.proc = "z_proporcao" ->
            << <<"p_hat", "p">>, <<"p_0", "p0">>, <<"n", "n">>, <<"alpha", "alpha">> >>
      [] call.proc \in {"t_dif_medias_var_iguais", "t_welch_dif_medias"} ->
            << <<"x1", "X1">>, <<"x2", "X2">>, <<"s1", "S1">>, <<"s2", "S2">>,
               <<"n1", "n1">>, <<"n2", "n2">>, <<"alpha", "alpha">> >>
      [] call.proc = "t_pareado" ->
            << <<"d_barra", "d">>, <<"delta", "Delta">>, <<"s", "Sd">>, <<"n", "n">>,
               <<"alpha", "alpha">> >>
      [] call.proc = "z_dif_medias_var_conhecidas" ->
            << <<"x1", "X1">>, <<"x2", "X2">>, <<"s1", "sigma1">>, <<"s2", "sigma2">>,
               <<"n1", "n1">>, <<"n2", "n2">>, <<"alpha", "alpha">> >>
      [] call.proc = "z_dif_proporcoes" ->
            << <<"p1", "p1">>, <<"p2", "p2">>, <<"n1", "n1">>, <<"n2", "n2">>,
               <<"alpha", "alpha">> >>
      [] call.proc = "f_dif_variancias" ->
            << <<"s1", "S1">>, <<"s2", "S2">>, <<"n1", "n1">>, <<"n2", "n2">>,
               <<"alpha", "alpha">> >>
      [] OTHER -> << >>

(* the answer typed for the argument is no number (an empty answer to the  *)
(* Delta prompt stands for 0)                                              *)
NotANumber(field) ==
    /\ call.args[field].txt # "num"
    /\ ~(field = "delta" /\ call.args[field].txt = "empty")

(* the value typed for the argument is a number and satisfies the test *)
TypedSmall(field) ==
    field \in DOMAIN call.args /\ IsQ(call.args[field].v) /\ QLe(call.args[field].v, One)

TypedNegative(field) ==
    field \in DOMAIN call.args /\ IsQ(call.args[field].v)
       /\ QLt(call.args[field].v, Num(0))

TypedNonPositive(field) ==
    field \in DOMAIN call.args /\ IsQ(call.args[field].v)
       /\ QLe(call.args[field].v, Num(0))

TypedOutsideUnit(field) ==
    field \in DOMAIN call.args /\ IsQ(call.args[field].v)
       /\ (QLt(call.args[field].v, Num(0)) \/ QLt(One, call.args[field].v))

TypedAlphaBad ==
    IsQ(call.args.alpha.v)
       /\ (QLe(call.args.alpha.v, Num(0)) \/ QLe(One, call.args.alpha.v))

Check(fails, error) == [fails |-> fails, error |-> error]

(* the checks of the procedure in the order the claim fixes, each with the *)
(* error it reports                                                        *)
ChecksInOrder ==
    [i \in 1..Len(PromptOrder) |->
        Check(NotANumber(PromptOrder[i][1]), NumericFormatError(PromptOrder[i][2]))]
    \o << Check(TipoNotAllowed, IF IsFTest THEN TipoErrorF ELSE TipoError),
          Check(TypedSmall("n") \/ TypedSmall("n1"), ParamError("n")),
          Check(TypedAlphaBad, ParamError("alpha")),
          Check(TypedNegative("s") \/ TypedNegative("s1"), ParamError("S")),
          Check(TypedSmall("n2"), ParamError("n")),
          Check("n2" \in DOMAIN call.args /\ TypedAlphaBad, ParamError("alpha")),
          Check(TypedNegative("s2"), ParamError("S")),
          Check(TypedNonPositive("sigma2_0"), VarianciaHipoteticaError),
          Check(\E f \in {"p_hat", "p_0", "p1", "p2"} : TypedOutsideUnit(f),
                ProporcoesError) >>

(* the places of the failing checks in the sequence checks *)
Failing(checks) == {i \in 1..Len(checks) : checks[i].fails}

(* the first failing check of the sequence checks *)
FirstFailing(checks) ==
    checks[CHOOSE i \in 1..Len(checks) :
              checks[i].fails /\ \A j \in 1..(i - 1) : ~checks[j].fails]

(* C25: a call of calculadora_testes_hipoteses.py in which some check      *)
(* fails ends in the error of the first failing check in the order: number *)
(* format of each prompt in prompt order, tail selector, then sample size, *)
(* significance level and spread of sample 1, the same three of sample 2,  *)
(* then the family's own check; and a call ends in a validation error only *)
(* if some check fails, so nothing is computed before every check passes.  *)
C25_CheckOrderCalculadora ==
    (Done /\ IsCTH) =>
       LET checks == ChecksInOrder
       IN  IF Failing(checks) # {}
           THEN outcome = FirstFailing(checks).error
           ELSE outcome.kind # "caught"

(* several checks fail at once: sample 1 has n <= 1, alpha is out of range *)
(* and the spread of sample 2 is negative; the error is that of n          *)
C25_Witness ==
    /\ Done /\ call.proc = "t_dif_medias_var_iguais"
    /\ TypedSmall("n1") /\ TypedAlphaBad /\ TypedNegative("s2")
    /\ Cardinality(Failing(ChecksInOrder)) >= 3
    /\ outcome = ParamError("n")


----------------------------------------------------------------------------
(* C26: the order of the checks in hypothesis_calc.py                      *)

(* the sample sizes the call works with: lengths of the raw samples it     *)
(* uses, or the size arguments                                             *)
SizesInOrder ==
    IF call.proc \in OneSampleHC
    THEN << IF SampleArg.given THEN Num(Len(SampleArg.xs)) ELSE call.args.n >>
    ELSE IF call.proc \in TwoSampleHC
    THEN (IF BothSamples
          THEN << Num(Len(call.args.sample_1.xs)), Num(Len(call.args.sample_2.xs)) >>
          ELSE << call.args.n_1, call.args.n_2 >>)
    ELSE IF call.proc = "test_proportion" THEN << call.args.n >>
    ELSE << call.args.n_1, call.args.n_2 >>

(* a rate of the call: given, or successes / n when counts are used *)
RateOf(counted, successes, n, p_hat) ==
    IF counted
    THEN (IF IsQ(successes) /\ IsQ(n) /\ ~IsZero(n) THEN QDiv(successes, n) ELSE None)
    ELSE p_hat

(* the proportions the family requires to lie in [0,1] *)
RatesChecked ==
    IF call.proc = "test_proportion"
    THEN { RateOf(~IsNone(call.args.successes) /\ ~IsNone(call.args.n),
                  call.args.successes, call.args.n, call.args.p_hat),
           call.args.p_0 }
    ELSE IF call.proc = "test_diff_proportions"
    THEN LET counted == ~IsNone(call.args.successes_1) /\ ~IsNone(call.args.successes_2)
         IN  { RateOf(counted, call.args.successes_1, call.args.n_1, call.args.p_hat_1),
               RateOf(counted, call.args.successes_2, call.args.n_2, call.args.p_hat_2) }
    ELSE {}

(* the family's own check fails *)
FamilyCheckFails ==
    \/ \E p \in RatesChecked : IsQ(p) /\ (QLt(p, Num(0)) \/ QLt(One, p))
    \/ /\ call.proc = "test_variance"
       /\ IsQ(call.args.sigma_0_sq)
       /\ QLe(call.args.sigma_0_sq, Num(0))

FamilyError ==
    IF call.proc = "test_variance" THEN NullVarianceError ELSE ProportionError

(* the checks of a procedure of hypothesis_calc.py in the order the claim  *)
(* fixes, each with the error it reports                                   *)
ChecksInOrderHC ==
    << Check(ShortSampleCall, SampleStatsError),
       Check(MissingMandatory, Incomplete),
       Check(IsQ(call.args.alpha)
                /\ (QLe(call.args.alpha, Num(0)) \/ QLe(One, call.args.alpha)),
             AlphaError) >>
    \o [i \in 1..Len(SizesInOrder) |->
           Check(IsQ(SizesInOrder[i]) /\ QLt(SizesInOrder[i], Num(2)), SampleSizeError)]
    \o << Check(FamilyCheckFails, FamilyError) >>

(* C26: a call of hypothesis_calc.py in which some check fails ends in the *)
(* error of the first failing check in the order: summarizing the supplied *)
(* sample(s) (length >= 2), completeness of the mandatory fields,          *)
(* significance level, sample size (n1 before n2), the family's own check; *)
(* so a too-short sample is reported even when alpha is invalid, and an    *)
(* invalid alpha before an invalid n.  A call in which no check fails      *)
(* raises no validation error.                                             *)
C26_CheckOrderHypothesisCalc ==
    (Done /\ IsHC) =>
       LET checks == ChecksInOrderHC
       IN  IF Failing(checks) # {}
           THEN outcome = FirstFailing(checks).error
           ELSE ~ValidationError

(* the procedures that summarize through calculate_sample_stats and only   *)
(* then compute keep the order                                             *)
CheckOrderKept ==
    (Done /\ IsHC /\ call.proc \notin {"test_mean_known_variance", "test_proportion",
                                       "test_diff_proportions"}) =>
       LET checks == ChecksInOrderHC
       IN  IF Failing(checks) # {}
           THEN outcome = FirstFailing(checks).error
           ELSE ~ValidationError

(* a sample of one value with alpha = 0 given to the z test for a mean:    *)
(* the call ends in the significance-level error                           *)
ShortSampleHiddenByAlpha ==
    /\ Done /\ call.proc = "test_mean_known_variance"
    /\ SampleArg.given /\ Len(SampleArg.xs) = 1
    /\ call.args.alpha = Num(0)
    /\ ~MissingMandatory
    /\ outcome = AlphaError


----------------------------------------------------------------------------
(* C27: raw input beside summary statistics in hypothesis_calc.py          *)

(* the summary arguments that the raw input of the family stands for *)
DerivedFields ==
    CASE call.proc = "test_mean_unknown_variance" -> {"x_bar", "s", "n"}
      [] call.proc = "test_paired_samples" -> {"d_bar", "s_d", "n"}
      [] call.proc = "test_mean_known_variance" -> {"x_bar", "n"}
      [] call.proc = "test_variance" -> {"s_sq", "n"}
      [] call.proc \in {"test_diff_means_equal_variances", "test_diff_means_welch"} ->
            {"x_bar_1", "x_bar_2", "s_sq_1", "s_sq_2", "n_1", "n_2"}
      [] call.proc = "test_diff_variances" -> {"s_sq_1", "s_sq_2", "n_1", "n_2"}
      [] call.proc = "test_proportion" -> {"p_hat"}
      [] call.proc = "test_diff_proportions" -> {"p_hat_1", "p_hat_2"}
      [] OTHER -> {}

(* the call supplies the raw input the procedure uses: the sample, both    *)
(* samples, or the success counts                                          *)
RawInputUsed ==
    CASE call.proc \in OneSampleHC -> SampleArg.given
      [] call.proc \in TwoSampleHC -> BothSamples
      [] call.proc = "test_proportion" ->
            ~IsNone(call.args.successes) /\ ~IsNone(call.args.n)
      [] call.proc = "test_diff_proportions" ->
            ~IsNone(call.args.successes_1) /\ ~IsNone(call.args.successes_2)
      [] OTHER -> FALSE

(* some summary argument is supplied beside the raw input *)
SummaryBesideRaw == RawInputUsed /\ \E f \in DerivedFields : ~Absent(f)

(* exactly one of the two samples is supplied *)
ExactlyOneSample ==
    /\ call.proc \in TwoSampleHC
    /\ call.args.sample_1.given # call.args.sample_2.given

(* the same call without the summary arguments the raw input stands for *)
WithoutSummary == Repaired(call, DerivedFields, None)

(* the same call without raw samples *)
WithoutSamples == With(With(call, "sample_1", NoSample), "sample_2", NoSample)

(* C27: in hypothesis_calc.py a call that supplies raw input and summary   *)
(* statistics together ends exactly as the same call without the summary   *)
(* statistics: they are replaced by the sample-derived values and no error *)
(* tells of the conflict.  A two-sample call with exactly one sample ends  *)
(* exactly as the same call without samples: the sample is ignored and the *)
(* summary arguments are used, and when one of them is missing the call    *)
(* fails as incomplete.                                                    *)
C27_RawReplacesSummary ==
    (Done /\ IsHC) =>
       /\ SummaryBesideRaw => outcome = Run(WithoutSummary)
       /\ ExactlyOneSample =>
             /\ outcome = Run(WithoutSamples)
             /\ SomeAbsent(DerivedFields) => outcome = Incomplete

(* a sample of two values beside the summary size n = 1: the result shows  *)
(* the sample's size                                                       *)
C27_Witness ==
    /\ Done /\ call.proc = "test_mean_unknown_variance"
    /\ SampleArg.given /\ call.args.n = Num(1)
    /\ GotResult
    /\ Lookup(outcome.res, "n") = Num(2)

(* one raw sample beside complete summary arguments: the result shows the  *)
(* summary sizes                                                           *)
OneSampleIgnored ==
    /\ Done /\ call.proc = "test_diff_means_equal_variances"
    /\ ExactlyOneSample /\ call.args.sample_1.given
    /\ Len(call.args.sample_1.xs) = 1
    /\ GotResult
    /\ Lookup(outcome.res, "n_1") = call.args.n_1


----------------------------------------------------------------------------
(* C28: the degrees of freedom the F test reports                          *)

FReportedDf1 == Lookup(outcome.res, "Graus de Liberdade 1 (gl1)")

FReportedDf2 == Lookup(outcome.res, "Graus de Liberdade 2 (gl2)")

FCritical == Lookup(outcome.res, "F_critico")

(* C28: in every F-test result of calculadora_testes_hipoteses.py the pair *)
(* (gl1, gl2) reported is, in that order, the pair of degrees of freedom   *)
(* of the reported critical value, for both tail types and whatever the    *)
(* order of s1 and s2, s1 = s2 included.                                   *)
C28_FReportedDfPair ==
    (FResult /\ IsCTH) =>
       /\ FCritical.k = "ppf"
       /\ FCritical.df1 = FReportedDf1
       /\ FCritical.df2 = FReportedDf2

(* what does hold for whole sample sizes: the pair reported is the pair of *)
(* the critical value in the directional test and when s1 > s2, and the    *)
(* swapped pair in the two-tailed test with s1 <= s2                       *)
FDfPairKept ==
    (FResult /\ IsCTH /\ FSize1.d = 1 /\ FSize2.d = 1) =>
       IF TipoArg = "unilateral_dir" \/ QLt(ArgValue(call, "s2"), ArgValue(call, "s1"))
       THEN FCritical.df1 = FReportedDf1 /\ FCritical.df2 = FReportedDf2
       ELSE FCritical.df1 = FReportedDf2 /\ FCritical.df2 = FReportedDf1

(* the two-tailed F test with S1 = 2, S2 = 3, n1 = 3, n2 = 2 reports (2, 1) *)
(* beside a critical value computed with (1, 2)                            *)
SwappedPairReported ==
    /\ FResult /\ IsCTH /\ TipoArg = "bilateral"
    /\ ArgValue(call, "s1") = Num(2) /\ ArgValue(call, "s2") = Num(3)
    /\ ArgValue(call, "n1") = Num(3) /\ ArgValue(call, "n2") = Num(2)
    /\ FReportedDf1 = Num(2) /\ FReportedDf2 = Num(1)
    /\ FCritical.df1 = Num(1) /\ FCritical.df2 = Num(2)


----------------------------------------------------------------------------
(* C29: how a run of run_interactive_calculator ends                       *)

InCalculator == prog = "hc"

(* the run has left the loop through its break *)
CalculatorEnded == InCalculator /\ pc = "ended"

(* the step types a menu answer that is none of the options *)
InvalidOptionTyped == InCalculator /\ pc = "menu" /\ option' \notin DOMAIN get_test_type

(* the step handles an error raised while reading the inputs or computing *)
ErrorHandled == InCalculator /\ pc = "called" /\ outcome.kind = "raised"

(* C29: a run of run_interactive_calculator that has ended has a           *)
(* successful calculation as its last calculation, its result printed, and *)
(* an answer other than "S" at the repeat prompt; the run ends only from   *)
(* the repeat prompt and the prompt is shown only after a call returned a  *)
(* result; after an invalid menu option and after any error, ValueError or *)
(* other, the loop is back at the test menu, not at the repeat prompt.     *)
C29_EndsAfterSuccess ==
    /\ [](CalculatorEnded =>
             /\ last = "success"
             /\ printed = "result"
             /\ repetir \notin {"unasked", "S"}
             /\ Upper(Strip(repetir)) # "S")
    /\ [][/\ (InCalculator /\ pc' = "ended" /\ pc # "ended") => pc = "repeat"
          /\ (InCalculator /\ pc' = "repeat" /\ pc # "repeat") =>
                (pc = "called" /\ outcome.kind = "result")
          /\ InvalidOptionTyped => (pc' = "menu" /\ printed' = "invalid")
          /\ ErrorHandled => (pc' = "menu" /\ printed' = "error")]_vars

(* a run that ended on the answer "n" after a successful calculation *)
C29_Witness ==
    /\ CalculatorEnded
    /\ last = "success"
    /\ repetir = "n"
    /\ option = "9"

(* a run back at the menu after an error, the repeat prompt not shown *)
ErrorBackAtMenu ==
    /\ InCalculator
    /\ pc = "menu"
    /\ printed = "error"
    /\ last = "failed"
    /\ repetir = "unasked"

----------------------------------------------------------------------------
(* C30: how a run of menu_principal ends                                   *)

InMenuPrincipal == prog = "cth"

(* the loop was left through one of its two breaks *)
LeftByBreak ==
    \/ option = "0"
    \/ repetir # "unasked" /\ Strip(Lower(repetir)) # "s"

(* C30: menu_principal never terminates abnormally: a failure inside the   *)
(* selected procedure is contained in it (the procedure returns, with no   *)
(* result, and nothing is printed as a result), and the loop ends only on  *)
(* "0" at the menu or on an answer other than "s" at the repeat prompt.    *)
C30_MenuNeverAbnormal ==
    InMenuPrincipal =>
       /\ pc # "crashed"
       /\ (pc = "called" /\ outcome.res = NoResult) => outcome.kind = "caught"
       /\ (pc = "repeat" /\ last = "failed") => printed = "error"
       /\ pc = "ended" => LeftByBreak

(* what does hold: a ValueError is contained, the loop is left by a break  *)
(* or by an exception that is not a ValueError                             *)
MenuFailuresContained ==
    InMenuPrincipal =>
       /\ (pc = "called" /\ outcome.kind = "caught") => outcome.exc = "ValueError"
       /\ (pc = "repeat" /\ last = "failed") => printed = "error"
       /\ pc = "ended" => LeftByBreak
       /\ pc = "crashed" => (outcome.kind = "raised" /\ outcome.exc = "ZeroDivisionError")

(* option 10 with S2 = 0: the division by zero of f_dif_variancias ends    *)
(* menu_principal with a traceback                                         *)
MenuCrashed ==
    /\ InMenuPrincipal
    /\ pc = "crashed"
    /\ option = "10"
    /\ call.proc = "f_dif_variancias"
    /\ call.args.s1 = NumTok(Num(2))
    /\ call.args.s2 = NumTok(Num(0))
    /\ call.args.n1 = NumTok(Num(2))
    /\ call.args.n2 = NumTok(Num(2))
    /\ call.args.alpha = NumTok(Q(1, 20))
    /\ call.args.tipo = "bilateral"

(* option 6 with S1 = S2 = 0: the same in t_welch_dif_medias *)
MenuCrashedWelch ==
    /\ InMenuPrincipal
    /\ pc = "crashed"
    /\ option = "6"
    /\ call.proc = "t_welch_dif_medias"
    /\ call.args.s1 = NumTok(Num(0))
    /\ call.args.s2 = NumTok(Num(0))

====
